---- MODULE Spec2Model ----
(***************************************************************************)
(* A model of the transport layer of claude-code-sdk-python.               *)
(*                                                                         *)
(* Part 1: SubprocessCLITransport.receive_messages                         *)
(*         (src/src/claude_code_sdk/_internal/transport/subprocess_cli.py) *)
(*         the reader of the CLI's stdout: chunks of text, a carry buffer  *)
(*         (json_buffer), json.loads on each stripped chunk.               *)
(* Part 2: SdkControlClientTransport (.../transport/sdk_control.py) and    *)
(*         the pending-request table its send_mcp_message callback stands  *)
(*         for.                                                            *)
(*                                                                         *)
(* Text is a sequence of one-character strings.  The alphabet is           *)
(*   {  }  [  ]  "  \  :  ,  n  space  line-feed                           *)
(* and json.loads is modelled on exactly the texts over that alphabet.     *)
(***************************************************************************)
EXTENDS Integers, Sequences, FiniteSets, TLC

VARIABLES
    \* ---- reader (receive_messages) ----
    emitted,      \* the lines the CLI wrote, in order (each a text, without its line feeds)
    stdout,       \* everything the CLI wrote to stdout: the lines, each with its line feeds
    pos,          \* how many characters of stdout the stream has delivered so far
    boundary_in_line,  \* some chunk so far ended inside a line (not at its line feeds)
    chunk_spans_lines, \* some chunk so far held text of more than one line
    line_str,     \* the text handed to json.loads last in the loop (carry + stripped chunk)
    json_buffer,  \* the carry buffer
    messages,     \* the values yielded so far, in order
    pc,           \* "idle" | "loop" | "wait" | "done" | "raised"
    err_kind,     \* which error ended the generator, "none" if none
    err_text,     \* the text the error carries
    exit_code,    \* <<returncode>> once wait() has returned, <<>> before
    stderr_text,  \* stderr_output: the collected stderr, joined, as seen after wait()
    \* ---- control transport (SdkControlClientTransport + request table) ----
    is_closed,    \* SdkControlClientTransport._is_closed
    next_id,      \* the request counter of the pending-request table
    pending,      \* request id -> "waiting" | "resolved" | "timeout" | "disconnected"
    sends,        \* request id -> where the send() coroutine that issued it stands
    delivered,    \* request id -> number of responses handed to onmessage
    failed,       \* request id -> number of errors raised to the caller of send()
    onclose_calls,\* how many times onclose has been invoked
    runtime_errors, \* how many send() calls raised RuntimeError("Transport is closed")
    connected,    \* whether the CLI side of the control channel is still there
    \* ---- SdkControlServerTransport ----
    server_is_closed,      \* SdkControlServerTransport._is_closed
    server_sent,           \* how many times its send_mcp_message callback was invoked
    server_onclose_calls,  \* how many times its onclose has been invoked
    server_runtime_errors, \* how many of its send() calls raised RuntimeError
    \* ---- SubprocessCLITransport: connect / disconnect ----
    process,      \* self._process: "none" | "running" (returncode None) | "exited"
    stdout_stream,\* self._stdout_stream is set
    stderr_stream,\* self._stderr_stream is set
    stdin_open,   \* the stdin pipe of self._process is open on the SDK's side
    timeout,      \* options.timeout in seconds, 0 for a falsy value (None or 0)
    tpc,          \* where disconnect() stands: "ready" | "waiting" | "killed"
    waited,       \* seconds the current disconnect() has waited under fail_after
    terminates,   \* terminate() calls of the last disconnect()
    kills,        \* kill() calls of the last disconnect()
    spawns,       \* processes open_process has created so far
    last_call,    \* the call that ended last: "none" | "connect" | "disconnect"
    last_result,  \* how it ended: "none" | "returned" | the error it raised
    cause,        \* what went wrong inside the last connect(), "none" if nothing
    opened,       \* whether the last connect() called open_process
    found_connected, \* is_connected() at the moment the last connect() was called
    \* ---- SubprocessCLITransport: _find_cli / _build_command ----
    which_claude, \* shutil.which("claude"): a path, "" for None
    which_node,   \* shutil.which("node") is not None
    files,        \* path -> "missing" | "file" | "dir", for the well-known paths
    options,      \* the ClaudeCodeOptions fields _build_command reads
    prompt,       \* self._prompt
    cli_path,     \* self._cli_path, "" while not set
    find_error,   \* which CLINotFoundError _find_cli raised: "none" | "node" | "claude"
    cmd,          \* the list _build_command returned, <<>> before
    lpc,          \* "idle" | "new" | "found" | "failed" | "built"
    \* ---- StatefulCLIClient ----
    enable_slash_commands, \* self._enable_slash_commands
    commands,     \* the names registered with self._command_router
    active,       \* self._active
    session_id,   \* self._session_id
    transport,    \* self._transport: NoTransport or the fields of the object
    stored,       \* the session ids that have a file in the storage directory
    next_tid,     \* how many StatefulCLITransport objects have been created, + 1
    op,           \* the client call that ended last, "none" before the first
    op_text,      \* its argument (message, command text or session id)
    op_outcome,   \* "none" | "returned" | the error it raised
    result,       \* what it returned: "none" | "id" | "true" | "response" | ...
    was_active,   \* whether there was an active session when it was called
    op_stream,    \* the stream_response argument of a send_message
    cli_result,   \* how its invocation of the CLI ended: "none" | "ok" | "failed"
    op_saves,     \* how many session saves it made
    op_ends,      \* how many times it ended a session
    ended_by,     \* what ended the session last: "none" | "end_session" | "/exit" | ...
    iterator,     \* the iterator send_message returned: "none" | "pending" | how it ended
    \* ---- SessionPersistence ----
    storage,      \* session id -> <<>> (no file) or <<the text of <id>.json>>
    pop,          \* the persistence call that ended last, "none" before the first
    parg,         \* the session id it was about, "" for list_sessions
    pres,         \* "none" | "returned" | "True" | "False" | the error it raised
    ploaded,      \* what the last load_session returned: <<>> for None, <<data>>
    plisted,      \* what the last list_sessions returned
    last_saved,   \* session id -> the SessionData last given to save_session, <<>> if none
    existed,      \* whether <id>.json existed when the last delete_session was called
    deleted,      \* the ids deleted with success and not saved since
    was_deleted,  \* whether the id of the last call was in deleted when it was called
    \* ---- StatefulCLITransport ----
    original_session_id, \* self._original_session_id, "" for None
    current_session_id,  \* self._current_session_id, "" for None
    session_data, \* self._session_data: <<>> for None, <<the SessionData>>
    session_active,      \* self._session_active
    has_sent_messages,   \* self._has_sent_messages
    clock,        \* what datetime.now() returned last, in seconds
    xop,          \* the call made last: "none" | "start_session" | "end_session" |
                  \* "get_simple_response" | "stream"
    xpc,          \* "idle" | "running" (inside the retry loop of get_simple_response)
    content,      \* the content argument of the call
    xcmd,         \* the command _build_message_command built for it, <<>> before
    attempt,      \* the loop variable of the retry loop
    invocations,  \* how many times the call has run the CLI
    last_run,     \* how its last run of the CLI ended
    xoutcome,     \* "none" | "returned" | the error the call raised
    response,     \* what it returned: <<>> or <<the response>>
    before,       \* the transport's fields when the call was made
    had_history,  \* whether the session had conversation history at that moment
    last_response_sid, \* the session_id of the latest response taken in that carried one
    \* ---- the pipes between a CLI process and the code that reads it ----
    read_path,    \* which code reads: "none" | "receive_messages" | "execute_streaming"
    cli_script,   \* the writes the CLI has still to make, each "out" or "err"
    out_pipe,     \* chunks written to the stdout pipe and not yet read
    err_pipe,     \* chunks written to the stderr pipe and not yet read
    cli_exit,     \* <<returncode>> once the CLI has exited, <<>> while it runs
    reader_at,    \* "stdout" | "join" | "wait" | "stderr" | "done"
    stderr_task,  \* the read_stderr task: "none" | "running" | "ended"
    \* ---- InternalClient.process_query ----
    queries       \* the generators process_query has returned, in order

rvars == <<emitted, stdout, pos, boundary_in_line, chunk_spans_lines, line_str,
          json_buffer, messages, pc, err_kind, err_text, exit_code, stderr_text>>
cvars == <<is_closed, next_id, pending, sends, delivered, failed, onclose_calls,
          runtime_errors, connected>>
bvars == <<server_is_closed, server_sent, server_onclose_calls, server_runtime_errors>>
tvars == <<process, stdout_stream, stderr_stream, stdin_open, timeout, tpc, waited,
          terminates, kills, spawns, last_call, last_result, cause, opened,
          found_connected>>
lvars == <<which_claude, which_node, files, options, prompt, cli_path, find_error,
          cmd, lpc>>
svars == <<enable_slash_commands, commands, active, session_id, transport, stored,
          next_tid, op, op_text, op_outcome, result, was_active, op_stream, cli_result,
          op_saves,
          op_ends, ended_by, iterator>>
pvars == <<storage, pop, parg, pres, ploaded, plisted, last_saved, existed, deleted,
          was_deleted>>
xvars == <<original_session_id, current_session_id, session_data, session_active,
          has_sent_messages, clock, xop, xpc, content, xcmd, attempt, invocations,
          last_run, xoutcome, response, before, had_history, last_response_sid>>
dvars == <<read_path, cli_script, out_pipe, err_pipe, cli_exit, reader_at, stderr_task>>
qvars == <<queries>>
vars  == <<rvars, cvars, bvars, tvars, lvars, svars, pvars, xvars, dvars, qvars>>

\* what the actions of one component leave alone
notReader    == <<dvars, qvars, bvars, cvars, tvars, lvars, svars, pvars, xvars>>
notControl   == <<dvars, qvars, bvars, rvars, tvars, lvars, svars, pvars, xvars>>
notTransport == <<dvars, qvars, bvars, rvars, cvars, lvars, svars, pvars, xvars>>
notLaunch    == <<dvars, qvars, bvars, rvars, cvars, tvars, svars, pvars, xvars>>
notClient    == <<dvars, qvars, bvars, rvars, cvars, tvars, lvars, pvars, xvars>>
notPersistence == <<dvars, qvars, bvars, rvars, cvars, tvars, lvars, svars, xvars>>
notServer    == <<dvars, qvars, rvars, cvars, tvars, lvars, svars, pvars, xvars>>
notPipes     == <<qvars, bvars, rvars, cvars, tvars, lvars, svars, pvars, xvars>>
notQueries   == <<dvars, bvars, rvars, cvars, tvars, lvars, svars, pvars, xvars>>
notStateful  == <<dvars, qvars, bvars, rvars, cvars, tvars, lvars, svars>>

-----------------------------------------------------------------------------
(* Bounds of the model *)

\* how many lines the CLI writes in one run
MaxLines == 2
\* how many line feeds may follow one line
MaxLF == 2
\* how many control requests one run issues
MaxRequests == 3
\* the largest options.timeout, in seconds
MaxTimeout == 2
\* how many processes one transport may spawn in a run
MaxSpawns == 2
\* the grace period of disconnect() when options.timeout is falsy, in seconds
DefaultGrace == 5
\* how many of the well-known paths exist in one file system
MaxHits == 3
\* the largest options.max_turns
MaxTurns == 2
\* how many StatefulCLITransport objects one client may create in a run
MaxTransports == 2
\* the default of the limit argument of list_sessions
DefaultLimit == 50
\* how far the clock of datetime.now() runs
MaxClock == 3
\* get_simple_response: max_retries
max_retries == 4

-----------------------------------------------------------------------------
(* Characters and text helpers *)

LF  == "\n"
SP  == " "
QUO == "\""
BSL == "\\"

\* str.strip() and json's WHITESPACE, on the alphabet of the model
Whitespace == {SP, LF}

\* str.count(c)
Count(s, c) == Cardinality({i \in 1..Len(s) : s[i] = c})

RECURSIVE LStrip(_)
LStrip(s) == IF s # <<>> /\ Head(s) \in Whitespace THEN LStrip(Tail(s)) ELSE s

RECURSIVE RStrip(_)
RStrip(s) ==
    IF s # <<>> /\ s[Len(s)] \in Whitespace THEN RStrip(SubSeq(s, 1, Len(s) - 1)) ELSE s

\* str.strip()
Strip(s) == RStrip(LStrip(s))

\* str.startswith("{") or str.startswith("[")
StartsWithOpen(s) == s # <<>> /\ s[1] \in {"{", "["}

Range(s) == {s[i] : i \in 1..Len(s)}

IsPrefix(a, b) == Len(a) <= Len(b) /\ SubSeq(b, 1, Len(a)) = a

-----------------------------------------------------------------------------
(* json.loads, restricted to the alphabet: objects, arrays and strings.     *)
(* A value is a record [t, s, items]:                                       *)
(*   string  [t |-> "str", s |-> its characters (escapes decoded)]          *)
(*   array   [t |-> "arr", items |-> its elements]                          *)
(*   object  [t |-> "obj", items |-> its members, each "kv" with the key in *)
(*            s and the value in items[1]; a repeated key keeps its place   *)
(*            and takes the later value, as a dict does]                    *)

NoVal == [t |-> "none", s |-> <<>>, items |-> <<>>]
Str(cs) == [t |-> "str", s |-> cs, items |-> <<>>]
Arr(xs) == [t |-> "arr", s |-> <<>>, items |-> xs]
Obj(ms) == [t |-> "obj", s |-> <<>>, items |-> ms]
Member(k, v) == [t |-> "kv", s |-> k, items |-> <<v>>]

Fail == [ok |-> FALSE, val |-> NoVal, next |-> 0]
Ok(v, n) == [ok |-> TRUE, val |-> v, next |-> n]

\* WHITESPACE.match(s, i).end(): the first index >= i that holds no whitespace
RECURSIVE SkipWs(_, _)
SkipWs(s, i) == IF i <= Len(s) /\ s[i] \in Whitespace THEN SkipWs(s, i + 1) ELSE i

\* the escapes scanstring knows, among the characters of the alphabet
Unescape(c) == IF c = "n" THEN LF ELSE c
Escapable == {QUO, BSL, "n"}

\* scanstring (strict): i is the index after the opening quote
RECURSIVE ScanString(_, _, _)
ScanString(s, i, acc) ==
    IF i > Len(s) THEN Fail
    ELSE IF s[i] = QUO THEN Ok(Str(acc), i + 1)
    ELSE IF s[i] = BSL THEN
        IF i + 1 <= Len(s) /\ s[i + 1] \in Escapable
        THEN ScanString(s, i + 2, Append(acc, Unescape(s[i + 1])))
        ELSE Fail
    ELSE IF s[i] = LF THEN Fail        \* a raw control character in a string
    ELSE ScanString(s, i + 1, Append(acc, s[i]))

\* dict[key] = value
RECURSIVE Put(_, _, _)
Put(ms, k, v) ==
    IF ms = <<>> THEN <<Member(k, v)>>
    ELSE IF Head(ms).s = k THEN <<Member(k, v)>> \o Tail(ms)
    ELSE <<Head(ms)>> \o Put(Tail(ms), k, v)

RECURSIVE ScanOnce(_, _), ArrayItems(_, _, _), ObjectItems(_, _, _)

\* JSONArray after the first element position is known
ArrayItems(s, i, acc) ==
    LET r == ScanOnce(s, i) IN
    IF ~r.ok THEN Fail
    ELSE LET j == SkipWs(s, r.next) IN
         IF j > Len(s) THEN Fail
         ELSE IF s[j] = "]" THEN Ok(Arr(Append(acc, r.val)), j + 1)
         ELSE IF s[j] = "," THEN ArrayItems(s, SkipWs(s, j + 1), Append(acc, r.val))
         ELSE Fail

\* JSONObject: i is where the quote of the next key must stand
ObjectItems(s, i, acc) ==
    IF i > Len(s) \/ s[i] # QUO THEN Fail
    ELSE LET k == ScanString(s, i + 1, <<>>) IN
         IF ~k.ok THEN Fail
         ELSE LET c == SkipWs(s, k.next) IN
              IF c > Len(s) \/ s[c] # ":" THEN Fail
              ELSE LET r == ScanOnce(s, SkipWs(s, c + 1)) IN
                   IF ~r.ok THEN Fail
                   ELSE LET j == SkipWs(s, r.next) IN
                        IF j > Len(s) THEN Fail
                        ELSE IF s[j] = "}" THEN Ok(Obj(Put(acc, k.val.s, r.val)), j + 1)
                        ELSE IF s[j] = ","
                             THEN ObjectItems(s, SkipWs(s, j + 1), Put(acc, k.val.s, r.val))
                        ELSE Fail

\* scan_once: one value starting exactly at i
ScanOnce(s, i) ==
    IF i > Len(s) THEN Fail
    ELSE IF s[i] = QUO THEN ScanString(s, i + 1, <<>>)
    ELSE IF s[i] = "[" THEN
        LET j == SkipWs(s, i + 1) IN
        IF j <= Len(s) /\ s[j] = "]" THEN Ok(Arr(<<>>), j + 1) ELSE ArrayItems(s, j, <<>>)
    ELSE IF s[i] = "{" THEN
        LET j == SkipWs(s, i + 1) IN
        IF j <= Len(s) /\ s[j] = "}" THEN Ok(Obj(<<>>), j + 1) ELSE ObjectItems(s, j, <<>>)
    ELSE Fail

\* json.loads(s): one value, whitespace around it, nothing else ("Extra data")
JsonLoads(s) ==
    LET r == ScanOnce(s, SkipWs(s, 1)) IN
    IF r.ok /\ SkipWs(s, r.next) = Len(s) + 1
    THEN [ok |-> TRUE, val |-> r.val]
    ELSE [ok |-> FALSE, val |-> NoVal]

IsValidJson(s) == JsonLoads(s).ok

-----------------------------------------------------------------------------
(* What the CLI writes: lines over the alphabet *)

\* valid JSON values, one per line
EmptyObject == <<"{", "}">>                                          \* {}
BracesInStr == <<"{", QUO, "}", QUO, ":", QUO, "{", "{", QUO, "}">>  \* {"}":"{{"}
SpaceInStr  == <<"[", QUO, SP, "n", QUO, "]">>                       \* [" n"]
\* lines that are not JSON
Malformed   == <<"{", "n", "}">>                                     \* {n}
NonJson     == <<"n">>                                               \* n

ValidLines == {EmptyObject, BracesInStr, SpaceInStr}
BadLines   == {Malformed, NonJson}
Lines      == ValidLines \cup BadLines

\* the sequences over S of length 0..n
RECURSIVE SeqsUpTo(_, _)
SeqsUpTo(S, n) ==
    IF n = 0 THEN {<<>>}
    ELSE LET p == SeqsUpTo(S, n - 1) IN
         p \cup {Append(q, x) : q \in {y \in p : Len(y) = n - 1}, x \in S}

Repeat(c, n) == [i \in 1..n |-> c]

\* the text of stdout: each line followed by nlf line feeds; with cut, the
\* last line is not ended (the CLI stopped before it wrote the line feed)
RECURSIVE Written(_, _, _)
Written(ls, nlf, cut) ==
    IF ls = <<>> THEN <<>>
    ELSE Head(ls)
         \o (IF cut /\ Len(ls) = 1 THEN <<>> ELSE Repeat(LF, nlf))
         \o Written(Tail(ls), nlf, cut)

-----------------------------------------------------------------------------
(* SubprocessCLITransport.receive_messages *)

\* line 251: line_str.count("{") - line_str.count("}")
OpenBraces(s) == Count(s, "{") - Count(s, "}")
\* line 252
OpenBrackets(s) == Count(s, "[") - Count(s, "]")
\* line 254
NetOpen(s) == OpenBraces(s) > 0 \/ OpenBrackets(s) > 0

\* HandleLine with the raise of line 264 lost: complete-looking invalid text is skipped
HandleLineSkipsInvalid(s) ==
    IF IsValidJson(s) THEN "yield"
    ELSE IF StartsWithOpen(s) /\ NetOpen(s) THEN "buffer"
    ELSE "skip"

\* lines 238-268: what the loop body does with line_str
HandleLine(s) ==
    IF IsValidJson(s) THEN "yield"
    ELSE IF StartsWithOpen(s) THEN (IF NetOpen(s) THEN "buffer" ELSE "raise")
    ELSE "skip"

\* FinalParse with the raise of line 280 lost: an unparsable carry is dropped
FinalParseDrops(buf) ==
    IF IsValidJson(buf) THEN "yield" ELSE "drop"

\* lines 274-280: what becomes of a non-empty carry at the end of the stream
FinalParse(buf) ==
    IF IsValidJson(buf) THEN "yield"
    ELSE IF StartsWithOpen(buf) THEN "raise"
    ELSE "drop"

\* str.lower(), on the letters the stderr texts of the model use
Lower(c) == CASE c = "E" -> "e" [] c = "R" -> "r" [] c = "O" -> "o" [] OTHER -> c

LowerAll(s) == [i \in 1..Len(s) |-> Lower(s[i])]

\* sub in s
Contains(s, sub) ==
    \E i \in 0..(Len(s) - Len(sub)) : SubSeq(s, i + 1, i + Len(sub)) = sub

\* lines 219-220 and 284: every stderr chunk is stripped, and the chunks are
\* joined with a line feed
RECURSIVE StderrOutput(_)
StderrOutput(chunks) ==
    IF chunks = <<>> THEN <<>>
    ELSE IF Len(chunks) = 1 THEN Strip(chunks[1])
    ELSE Strip(chunks[1]) \o <<LF>> \o StderrOutput(Tail(chunks))

\* what the CLI wrote to stderr in one run, as the chunks the stream delivered:
\* nothing, an error report, a warning, an error report cut inside the word
StderrRuns ==
    { <<>>,
      << <<"E", "r", "r", "o", "r", ":", SP, "n", LF>> >>,
      << <<"w", "a", "r", "n", LF>> >>,
      << <<"e", "r", "r">>, <<"o", "r", LF>> >> }

\* RaisesProcessError with the test of the exit code lost
RaisesProcessErrorAnyExit(returncode, stderr_output) ==
    stderr_output # <<>> /\ Contains(LowerAll(stderr_output), <<"e", "r", "r", "o", "r">>)

\* lines 283-290: whether the exit of the process becomes ProcessError
RaisesProcessError(returncode, stderr_output) ==
    /\ returncode # 0
    /\ stderr_output # <<>>
    /\ Contains(LowerAll(stderr_output), <<"e", "r", "r", "o", "r">>)

\* the paths _find_cli looks at after the search path: the list of lines 52-69
\* in its order, the pattern of line 62 standing for what glob makes of it
NvmPattern == "~/.nvm/versions/node/*/bin/claude"

Locations ==
    << "~/.npm-global/bin/claude",
       "/usr/local/bin/claude",
       "~/.local/bin/claude",
       "~/node_modules/.bin/claude",
       "~/.yarn/bin/claude",
       "/opt/homebrew/bin/claude",
       "/usr/local/lib/node_modules/@anthropic-ai/claude-code/bin/claude",
       NvmPattern,
       "node_modules/.bin/claude",
       "../node_modules/.bin/claude",
       "~/.claude/local/claude",
       "~/.claude/bin/claude" >>

\* the paths the pattern can stand for, in the order glob.glob returns them
NvmPaths ==
    << "~/.nvm/versions/node/v18/bin/claude", "~/.nvm/versions/node/v20/bin/claude" >>

Paths == ({Locations[i] : i \in 1..Len(Locations)} \ {NvmPattern})
            \cup {NvmPaths[i] : i \in 1..Len(NvmPaths)}

\* ClaudeCodeOptions(): every field _build_command reads is falsy
DefaultOptions ==
    [system_prompt |-> "", append_system_prompt |-> "", allowed_tools |-> <<>>,
     max_turns |-> 0, disallowed_tools |-> <<>>, model |-> "",
     permission_prompt_tool_name |-> "", permission_mode |-> "",
     continue_conversation |-> FALSE, resume |-> "", mcp_servers |-> ""]

\* no SubprocessCLITransport is being constructed
LaunchIdle ==
    /\ which_claude = ""
    /\ which_node = FALSE
    /\ files = [p \in Paths |-> "missing"]
    /\ options = DefaultOptions
    /\ prompt = ""
    /\ cli_path = ""
    /\ find_error = "none"
    /\ cmd = <<>>
    /\ lpc = "idle"

\* self._transport = None
NoTransport == [tid |-> 0, sid |-> "", session_active |-> FALSE]

\* slash_commands.py lines 332-341: the names of the built-in commands
Builtin == {"help", "exit", "clear", "history", "sessions", "resume", "info", "search"}

\* no StatefulCLIClient exists
ClientIdle ==
    /\ enable_slash_commands = TRUE
    /\ commands = Builtin
    /\ active = FALSE
    /\ session_id = ""
    /\ transport = NoTransport
    /\ stored = {}
    /\ next_tid = 1
    /\ op = "none"
    /\ op_text = <<>>
    /\ op_outcome = "none"
    /\ result = "none"
    /\ was_active = FALSE
    /\ op_stream = FALSE
    /\ cli_result = "none"
    /\ op_saves = 0
    /\ op_ends = 0
    /\ ended_by = "none"
    /\ iterator = "none"

\* a transport as __init__ leaves it, with options.timeout falsy
TransportIdle ==
    /\ process = "none"
    /\ stdout_stream = FALSE
    /\ stderr_stream = FALSE
    /\ stdin_open = FALSE
    /\ timeout = 0
    /\ tpc = "ready"
    /\ waited = 0
    /\ terminates = 0
    /\ kills = 0
    /\ spawns = 0
    /\ last_call = "none"
    /\ last_result = "none"
    /\ cause = "none"
    /\ opened = FALSE
    /\ found_connected = FALSE

\* a transport after a connect() that returned: the process runs, both read
\* streams are set, the prompt is written and stdin is closed
TransportConnected ==
    /\ process = "running"
    /\ stdout_stream = TRUE
    /\ stderr_stream = TRUE
    /\ stdin_open = FALSE
    /\ timeout = 0
    /\ tpc = "ready"
    /\ waited = 0
    /\ terminates = 0
    /\ kills = 0
    /\ spawns = 1
    /\ last_call = "connect"
    /\ last_result = "returned"
    /\ cause = "none"
    /\ opened = TRUE
    /\ found_connected = FALSE

\* the ids of the sessions of the model
SessionIds == {"s1", "s2", "u1"}

\* an empty storage directory, and no call made
PersistenceIdle ==
    /\ storage = [i \in SessionIds |-> <<>>]
    /\ pop = "none"
    /\ parg = ""
    /\ pres = "none"
    /\ ploaded = <<>>
    /\ plisted = <<>>
    /\ last_saved = [i \in SessionIds |-> <<>>]
    /\ existed = FALSE
    /\ deleted = {}
    /\ was_deleted = FALSE

\* the transport's fields as one value
Fields(orig, cur, data, sent) ==
    [original_session_id |-> orig, current_session_id |-> cur, session_data |-> data,
     has_sent_messages |-> sent]

\* no run of the CLI yet
NoRun == [kind |-> "none", sid |-> "", has_result |-> FALSE]

\* no StatefulCLITransport exists
StatefulIdle ==
    /\ original_session_id = ""
    /\ current_session_id = ""
    /\ session_data = <<>>
    /\ session_active = FALSE
    /\ has_sent_messages = FALSE
    /\ clock = 0
    /\ xop = "none"
    /\ xpc = "idle"
    /\ content = ""
    /\ xcmd = <<>>
    /\ attempt = 0
    /\ invocations = 0
    /\ last_run = NoRun
    /\ xoutcome = "none"
    /\ response = <<>>
    /\ before = Fields("", "", <<>>, FALSE)
    /\ had_history = FALSE
    /\ last_response_sid = ""

SessionsIdle == PersistenceIdle /\ StatefulIdle

\* no CLI process is being read
PipesIdle ==
    /\ read_path = "none"
    /\ cli_script = <<>>
    /\ out_pipe = 0
    /\ err_pipe = 0
    /\ cli_exit = <<>>
    /\ reader_at = "done"
    /\ stderr_task = "none"

\* process_query has not been called
QueriesIdle == queries = <<>>

NoCli == PipesIdle /\ QueriesIdle

ControlInit ==
    /\ is_closed = FALSE
    /\ next_id = 1
    /\ pending = <<>>
    /\ sends = <<>>
    /\ delivered = <<>>
    /\ failed = <<>>
    /\ onclose_calls = 0
    /\ runtime_errors = 0
    /\ connected = TRUE
    /\ server_is_closed = FALSE
    /\ server_sent = 0
    /\ server_onclose_calls = 0
    /\ server_runtime_errors = 0

\* lines 212-213, on a connected transport whose CLI writes some lines
ReaderInit ==
    /\ \E ls \in SeqsUpTo(Lines, MaxLines), nlf \in 1..MaxLF, cut \in BOOLEAN :
          /\ ls # <<>>
          /\ emitted = ls
          /\ stdout = Written(ls, nlf, cut)
    /\ pos = 0
    /\ boundary_in_line = FALSE
    /\ chunk_spans_lines = FALSE
    /\ line_str = <<>>
    /\ json_buffer = <<>>
    /\ messages = <<>>
    /\ pc = "loop"
    /\ err_kind = "none"
    /\ err_text = <<>>
    /\ exit_code = <<>>
    /\ stderr_text = <<>>

Init == ReaderInit /\ ControlInit /\ NoCli /\ TransportConnected /\ LaunchIdle /\ ClientIdle /\ SessionsIdle

\* lines 228-268: the stream delivers the next n characters as one chunk and
\* the loop body runs on it
ReadChunk(n) ==
    /\ pc = "loop"
    /\ pos + n <= Len(stdout)
    /\ LET chunk == SubSeq(stdout, pos + 1, pos + n)
           stripped == Strip(chunk)
           joined == json_buffer \o stripped
           what == IF stripped = <<>> THEN "blank" ELSE HandleLine(joined)
       IN /\ pos' = pos + n
          /\ boundary_in_line' =
                (boundary_in_line \/ (/\ pos + n < Len(stdout)
                                      /\ stdout[pos + n] # LF
                                      /\ stdout[pos + n + 1] # LF))
          /\ chunk_spans_lines' = (chunk_spans_lines \/ LF \in Range(stripped))
          /\ line_str' = IF what = "blank" THEN <<>> ELSE joined
          /\ json_buffer' = CASE what = "blank" -> json_buffer
                              [] what = "buffer" -> joined
                              [] OTHER -> <<>>
          /\ messages' = IF what = "yield"
                         THEN Append(messages, JsonLoads(joined).val)
                         ELSE messages
          /\ pc' = IF what = "raise" THEN "raised" ELSE "loop"
          /\ err_kind' = IF what = "raise" THEN "CLIJSONDecodeError" ELSE err_kind
          /\ err_text' = IF what = "raise" THEN joined ELSE err_text
    /\ UNCHANGED <<emitted, stdout, exit_code, stderr_text>>
    /\ UNCHANGED notReader

\* lines 273-280: stdout is exhausted; one more parse of the carry
EndOfStream ==
    /\ pc = "loop"
    /\ pos = Len(stdout)
    /\ LET what == IF json_buffer = <<>> THEN "none" ELSE FinalParse(json_buffer)
       IN /\ messages' = IF what = "yield"
                         THEN Append(messages, JsonLoads(json_buffer).val)
                         ELSE messages
          /\ pc' = IF what = "raise" THEN "raised" ELSE "wait"
          /\ err_kind' = IF what = "raise" THEN "CLIJSONDecodeError" ELSE err_kind
          /\ err_text' = IF what = "raise" THEN json_buffer ELSE err_text
    /\ UNCHANGED <<emitted, stdout, pos, boundary_in_line, chunk_spans_lines, line_str,
                   json_buffer, exit_code, stderr_text>>
    /\ UNCHANGED notReader

\* lines 282-290: wait for the process and look at its exit code and stderr
ProcessWait(returncode, chunks) ==
    /\ pc = "wait"
    /\ LET stderr_output == StderrOutput(chunks)
       IN /\ exit_code' = <<returncode>>
          /\ stderr_text' = stderr_output
          /\ pc' = IF RaisesProcessError(returncode, stderr_output)
                   THEN "raised" ELSE "done"
          /\ err_kind' = IF RaisesProcessError(returncode, stderr_output)
                         THEN "ProcessError" ELSE err_kind
    /\ UNCHANGED <<emitted, stdout, pos, boundary_in_line, chunk_spans_lines, line_str,
                   json_buffer, messages, err_text>>
    /\ UNCHANGED notReader

ReaderNext ==
    \/ \E n \in 1..Len(stdout) : ReadChunk(n)
    \/ EndOfStream
    \/ \E returncode \in {0, 1}, chunks \in StderrRuns :
          ProcessWait(returncode, chunks)

ReaderSpec == Init /\ [][ReaderNext]_vars

-----------------------------------------------------------------------------
(* Claims about receive_messages (checked under ReaderSpec) *)

AllValid == \A i \in 1..Len(emitted) : IsValidJson(emitted[i])
\* every line the CLI wrote was followed by at least one line feed
EachEnded == stdout[Len(stdout)] = LF
\* the values the CLI wrote, in order
Expected == [i \in 1..Len(emitted) |-> JsonLoads(emitted[i]).val]
Terminal == pc \in {"wait", "done", "raised"}
DecodeError == err_kind = "CLIJSONDecodeError"
\* text that starts like JSON, has no net-open brace or bracket, and is not JSON
LooksCompleteInvalid(s) == StartsWithOpen(s) /\ ~NetOpen(s) /\ ~IsValidJson(s)

\* C1: when every line the CLI wrote is a valid JSON value followed by a line
\* feed, then for every chunking the generator ends without a decode error
\* having yielded exactly the values written: none lost, altered, merged or
\* invented.
ClaimC1 ==
    (AllValid /\ EachEnded /\ Terminal) =>
        /\ ~DecodeError
        /\ Len(messages) = Len(emitted)
        /\ Range(messages) = Range(Expected)

\* C2: a malformed line does not prevent, swallow or corrupt the valid lines
\* after it: once the stream is over, every valid line that came after a
\* malformed one has been yielded (here with every line delivered as a chunk
\* of its own).
ClaimC2 ==
    (Terminal /\ EachEnded /\ ~boundary_in_line /\ ~chunk_spans_lines) =>
        \A i, j \in 1..Len(emitted) :
            (i < j /\ ~IsValidJson(emitted[i]) /\ IsValidJson(emitted[j]))
                => JsonLoads(emitted[j]).val \in Range(messages)

ClaimC4 ==
    (AllValid /\ Len(emitted) = 2 /\ chunk_spans_lines /\ ~boundary_in_line /\ Terminal) =>
        /\ ~DecodeError
        /\ messages = Expected

\* C5: one valid JSON object, split into consecutive chunks at any point,
\* is yielded as exactly one message equal to the object, with no error.
ClaimC5 ==
    (Len(emitted) = 1 /\ AllValid /\ emitted[1][1] = "{" /\ Terminal) =>
        /\ ~DecodeError
        /\ messages = Expected

\* C6: two valid lines with two or more line feeds between them, no chunk
\* boundary inside a line: both values are yielded, nothing else, no error.
ClaimC6 ==
    (/\ Len(emitted) = 2 /\ AllValid /\ ~boundary_in_line /\ Terminal
     /\ SubSeq(stdout, Len(emitted[1]) + 1, Len(emitted[1]) + 2) = <<LF, LF>>) =>
        /\ ~DecodeError
        /\ messages = Expected

\* C7: when stdout ends with a non-empty carry, the carry is parsed once more:
\* its value is yielded if it parses, otherwise CLIJSONDecodeError is raised
\* carrying the carry; it is never dropped silently.
ClaimC7 ==
    (pc # "loop" /\ json_buffer # <<>>) =>
        IF IsValidJson(json_buffer)
        THEN /\ ~DecodeError
             /\ messages # <<>>
             /\ messages[Len(messages)] = JsonLoads(json_buffer).val
        ELSE /\ pc = "raised"
             /\ DecodeError
             /\ err_text = json_buffer

WitnessC7 == pc = "raised" /\ json_buffer # <<>> /\ pos = Len(stdout)

\* C8: envelopes are yielded in emission order, each exactly once, also when
\* a chunk holds a complete envelope followed by the start of another that a
\* later chunk completes: what has been yielded is always a prefix of what the
\* CLI wrote, and at the end of the stream it is all of it.
ClaimC8 ==
    (AllValid /\ EachEnded /\ chunk_spans_lines /\ boundary_in_line) =>
        /\ IsPrefix(messages, Expected)
        /\ Terminal => (~DecodeError /\ messages = Expected)

\* C9: the carry holds at most one incomplete envelope (never a complete line
\* and more), and it is empty whenever the input consumed so far ends with a
\* complete line.
ClaimC9 ==
    AllValid =>
        /\ LF \notin Range(json_buffer)
        /\ (pc = "loop" /\ pos > 0 /\ stdout[pos] = LF) => json_buffer = <<>>

\* the word the exit check looks for
ErrorWord == <<"e", "r", "r", "o", "r">>

-----------------------------------------------------------------------------
(* SdkControlClientTransport and the request table behind send_mcp_message *)

\* no receive_messages call is in progress
ReaderIdle ==
    /\ emitted = <<>>
    /\ stdout = <<>>
    /\ pos = 0
    /\ boundary_in_line = FALSE
    /\ chunk_spans_lines = FALSE
    /\ line_str = <<>>
    /\ json_buffer = <<>>
    /\ messages = <<>>
    /\ pc = "idle"
    /\ err_kind = "none"
    /\ err_text = <<>>
    /\ exit_code = <<>>
    /\ stderr_text = <<>>

ControlSpecInit == ReaderIdle /\ ControlInit /\ NoCli /\ TransportIdle /\ LaunchIdle /\ ClientIdle /\ SessionsIdle

Issued(r) == r < next_id
Calls == runtime_errors + next_id - 1

\* the outcome a new waiter starts with: a request issued after the peer is
\* gone is failed at once
NewWaiter == IF connected THEN "waiting" ELSE "disconnected"

\* send() with the exception of a failed await swallowed: onmessage is called anyway
DeliversAlways(outcome) == TRUE

\* sdk_control.py lines 81-85: onmessage(response) is reached only when the
\* await returned a response
Delivers(outcome) == outcome = "resolved"

\* sdk_control.py lines 77-81: send() up to its await.  A closed transport
\* raises RuntimeError; otherwise the callback is called, which allocates the
\* next request id and a waiter, and the coroutine suspends on it
Send ==
    /\ Calls < MaxRequests
    /\ IF is_closed
       THEN /\ runtime_errors' = runtime_errors + 1
            /\ UNCHANGED <<next_id, pending, sends, delivered, failed>>
       ELSE /\ next_id' = next_id + 1
            /\ pending' = Append(pending, NewWaiter)
            /\ sends' = Append(sends, "awaiting")
            /\ delivered' = Append(delivered, 0)
            /\ failed' = Append(failed, 0)
            /\ UNCHANGED runtime_errors
    /\ UNCHANGED <<is_closed, onclose_calls, connected>>
    /\ UNCHANGED notControl

\* a control_response with id r arrives: it resolves the waiter of r if there
\* is one; a response with no matching entry (a duplicate, a late one) is dropped
Respond(r) ==
    /\ connected
    /\ Issued(r)
    /\ pending' = IF pending[r] = "waiting" THEN [pending EXCEPT ![r] = "resolved"] ELSE pending
    /\ UNCHANGED <<is_closed, next_id, sends, delivered, failed, onclose_calls,
                   runtime_errors, connected>>
    /\ UNCHANGED notControl

\* the deadline of request r passes: its entry is removed and the waiter failed
Timeout(r) ==
    /\ Issued(r)
    /\ pending[r] = "waiting"
    /\ pending' = [pending EXCEPT ![r] = "timeout"]
    /\ UNCHANGED <<is_closed, next_id, sends, delivered, failed, onclose_calls,
                   runtime_errors, connected>>
    /\ UNCHANGED notControl

\* the peer goes away: every pending waiter is failed with disconnected
Disconnect ==
    /\ connected
    /\ connected' = FALSE
    /\ pending' = [r \in 1..Len(pending) |->
                      IF pending[r] = "waiting" THEN "disconnected" ELSE pending[r]]
    /\ UNCHANGED <<is_closed, next_id, sends, delivered, failed, onclose_calls,
                   runtime_errors>>
    /\ UNCHANGED notControl

\* sdk_control.py lines 81-85: the await of request r is over; send() hands
\* the response to onmessage, or the failure of the await propagates
SendResume(r) ==
    /\ Issued(r)
    /\ sends[r] = "awaiting"
    /\ pending[r] # "waiting"
    /\ delivered' = IF Delivers(pending[r])
                    THEN [delivered EXCEPT ![r] = @ + 1] ELSE delivered
    /\ failed' = IF pending[r] # "resolved"
                 THEN [failed EXCEPT ![r] = @ + 1] ELSE failed
    /\ sends' = [sends EXCEPT ![r] = IF pending[r] = "resolved" THEN "returned" ELSE "raised"]
    /\ UNCHANGED <<is_closed, next_id, pending, onclose_calls, runtime_errors, connected>>
    /\ UNCHANGED notControl

\* sdk_control.py lines 87-93
Close ==
    /\ IF is_closed
       THEN UNCHANGED <<is_closed, onclose_calls>>
       ELSE /\ is_closed' = TRUE
            /\ onclose_calls' = onclose_calls + 1
    /\ UNCHANGED <<next_id, pending, sends, delivered, failed, runtime_errors, connected>>
    /\ UNCHANGED notControl

ControlNext ==
    \/ Send
    \/ \E r \in 1..MaxRequests : Respond(r)
    \/ \E r \in 1..MaxRequests : Timeout(r)
    \/ Disconnect
    \/ \E r \in 1..MaxRequests : SendResume(r)
    \/ Close

ControlSpec == ControlSpecInit /\ [][ControlNext]_vars

\* the deadline of a pending request does pass, and the event loop does resume
\* a coroutine whose await is over
ControlFairSpec ==
    /\ ControlSpec
    /\ \A r \in 1..MaxRequests : WF_vars(Timeout(r)) /\ WF_vars(SendResume(r))

-----------------------------------------------------------------------------
(* Claims about control requests (checked under ControlFairSpec) *)

Settled(r) == Issued(r) /\ delivered[r] + failed[r] = 1

ExactlyOneOutcome ==
    \A r \in 1..(next_id - 1) :
        /\ delivered[r] + failed[r] <= 1
        /\ delivered[r] = 1 => pending[r] = "resolved"
        /\ failed[r] = 1 => pending[r] \in {"timeout", "disconnected"}
        /\ sends[r] # "awaiting" => delivered[r] + failed[r] = 1

-----------------------------------------------------------------------------
(* Closing the control transports: SdkControlClientTransport and
   SdkControlServerTransport *)

\* C31: no message is delivered to SdkControlClientTransport.onmessage after
\* the transport has been closed, including when close() is called while a
\* send() is still awaiting its response.
ClaimC31 ==
    [][\A r \in 1..Len(delivered) : delivered'[r] > delivered[r] => ~is_closed]_vars

\* send() of the server transport without the test of line 134
ServerSendUnguarded ==
    /\ server_sent + server_runtime_errors < MaxRequests
    /\ server_sent' = server_sent + 1
    /\ UNCHANGED <<server_is_closed, server_onclose_calls, server_runtime_errors>>
    /\ UNCHANGED notServer

\* sdk_control.py lines 125-138: a closed transport raises RuntimeError;
\* otherwise the callback is called with the message (nothing is awaited)
ServerSend ==
    /\ server_sent + server_runtime_errors < MaxRequests
    /\ IF server_is_closed
       THEN /\ server_runtime_errors' = server_runtime_errors + 1
            /\ UNCHANGED server_sent
       ELSE /\ server_sent' = server_sent + 1
            /\ UNCHANGED server_runtime_errors
    /\ UNCHANGED <<server_is_closed, server_onclose_calls>>
    /\ UNCHANGED notServer

\* sdk_control.py lines 140-146
ServerClose ==
    /\ IF server_is_closed
       THEN UNCHANGED <<server_is_closed, server_onclose_calls>>
       ELSE /\ server_is_closed' = TRUE
            /\ server_onclose_calls' = server_onclose_calls + 1
    /\ UNCHANGED <<server_sent, server_runtime_errors>>
    /\ UNCHANGED notServer

\* both transports of one bridge, each driven by its own side
BridgeNext ==
    \/ ControlNext
    \/ ServerSend
    \/ ServerClose

BridgeSpec == ControlSpecInit /\ [][BridgeNext]_vars

\* a step in which a send() call of the client transport, of the server
\* transport, takes its first step
ClientSendStep == Calls' = Calls + 1
ServerSendStep == server_sent' + server_runtime_errors' = server_sent + server_runtime_errors + 1

\* C32: for both SdkControlClientTransport and SdkControlServerTransport,
\* over any sequence of send and close calls, onclose is invoked at most once
\* (by the first close only), and every send issued after close raises
\* RuntimeError without invoking the send_mcp_message callback.
ClaimC32 ==
    /\ [](onclose_calls <= 1 /\ server_onclose_calls <= 1)
    /\ [](is_closed <=> onclose_calls = 1)
    /\ [](server_is_closed <=> server_onclose_calls = 1)
    /\ [][/\ onclose_calls' # onclose_calls => ~is_closed
          /\ server_onclose_calls' # server_onclose_calls => ~server_is_closed
          /\ (is_closed /\ ClientSendStep) =>
                 (runtime_errors' = runtime_errors + 1 /\ next_id' = next_id)
          /\ (server_is_closed /\ ServerSendStep) =>
                 (server_runtime_errors' = server_runtime_errors + 1
                  /\ server_sent' = server_sent)
          /\ is_closed => next_id' = next_id
          /\ server_is_closed => server_sent' = server_sent]_vars

\* on both sides a message was sent, the transport was closed and a later
\* send was refused
WitnessC32 ==
    /\ is_closed /\ next_id > 1 /\ runtime_errors > 0 /\ onclose_calls = 1
    /\ server_is_closed /\ server_sent > 0 /\ server_runtime_errors > 0
    /\ server_onclose_calls = 1

-----------------------------------------------------------------------------
(* SubprocessCLITransport: connect, disconnect, is_connected *)

\* lines 292-294
is_connected == process # "none" /\ process = "running"

\* what can go wrong inside connect(): the executable is missing, options.cwd
\* is missing, the executable may not be run, the prompt cannot be written
Causes == {"none", "no_executable", "no_cwd", "no_permission", "stdin_write"}

\* the exception open_process (lines 155-162) or stdin.send (line 172) raises
Raised(c) ==
    CASE c \in {"no_executable", "no_cwd"} -> "FileNotFoundError"
      [] c = "no_permission" -> "PermissionError"
      [] c = "stdin_write" -> "BrokenResourceError"
      [] OTHER -> "none"

\* whether open_process had created the process when the failure came
Spawned(c) == c \in {"none", "stdin_write"}

\* ConnectError with the first except clause lost
ConnectErrorOnlyConnection(exc) == "CLIConnectionError"

\* lines 175-178: the error connect() raises for an exception of the try block
ConnectError(exc) ==
    IF exc = "FileNotFoundError" THEN "CLINotFoundError" ELSE "CLIConnectionError"

\* line 190: timeout = self._timeout or 5.0
Grace(t) == IF t = 0 THEN DefaultGrace ELSE t

\* GraceOver with the deadline at once
GraceOverAtOnce(w, t) == TRUE

\* lines 191-193: fail_after raises TimeoutError when the wait has taken the
\* whole grace period
GraceOver(w, t) == w >= Grace(t)

TransportInit ==
    /\ process = "none"
    /\ stdout_stream = FALSE
    /\ stderr_stream = FALSE
    /\ stdin_open = FALSE
    /\ timeout \in 0..MaxTimeout
    /\ tpc = "ready"
    /\ waited = 0
    /\ terminates = 0
    /\ kills = 0
    /\ spawns = 0
    /\ last_call = "none"
    /\ last_result = "none"
    /\ cause = "none"
    /\ opened = FALSE
    /\ found_connected = FALSE

TransportSpecInit ==
    ReaderIdle /\ ControlInit /\ NoCli /\ TransportInit /\ LaunchIdle /\ ClientIdle /\ SessionsIdle

\* lines 143-178 with no process handle: connect() spawns; c is what goes
\* wrong, alive whether the process still runs when connect() ends
Connect(c, alive) ==
    /\ tpc = "ready"
    /\ process = "none"
    /\ spawns < MaxSpawns
    /\ alive \/ c = "stdin_write"
    /\ cause' = c
    /\ last_call' = "connect"
    /\ last_result' = IF c = "none" THEN "returned" ELSE ConnectError(Raised(c))
    /\ IF Spawned(c)
       THEN /\ process' = IF alive THEN "running" ELSE "exited"
            /\ stdout_stream' = TRUE
            /\ stderr_stream' = TRUE
            /\ stdin_open' = (c = "stdin_write")
            /\ spawns' = spawns + 1
       ELSE UNCHANGED <<process, stdout_stream, stderr_stream, stdin_open, spawns>>
    /\ opened' = TRUE
    /\ found_connected' = is_connected
    /\ UNCHANGED <<timeout, tpc, waited, terminates, kills>>
    /\ UNCHANGED notTransport

\* lines 145-146: connect() with a process handle returns at once
ConnectAgain ==
    /\ tpc = "ready"
    /\ process # "none"
    /\ cause' = "none"
    /\ last_call' = "connect"
    /\ last_result' = "returned"
    /\ UNCHANGED <<process, stdout_stream, stderr_stream, stdin_open, timeout, tpc,
                   waited, terminates, kills, spawns>>
    /\ opened' = FALSE
    /\ found_connected' = is_connected
    /\ UNCHANGED notTransport

\* the CLI exits (on its own, or on the terminate signal)
ProcessExits ==
    /\ process = "running"
    /\ tpc \in {"ready", "waiting"}
    /\ process' = "exited"
    /\ UNCHANGED <<stdout_stream, stderr_stream, stdin_open, timeout, tpc, waited,
                   terminates, kills, spawns, last_call, last_result, cause>>
    /\ UNCHANGED <<opened, found_connected>>
    /\ UNCHANGED notTransport

\* lines 200-202, and the return of disconnect()
Cleared ==
    /\ process' = "none"
    /\ stdout_stream' = FALSE
    /\ stderr_stream' = FALSE
    /\ stdin_open' = FALSE
    /\ tpc' = "ready"
    /\ last_call' = "disconnect"
    /\ last_result' = "returned"

\* lines 181-192: disconnect() up to its first await; lookup_error is
\* terminate() raising ProcessLookupError (line 198)
DisconnectCall(lookup_error) ==
    /\ tpc = "ready"
    /\ lookup_error => process = "running"
    /\ waited' = 0
    /\ kills' = 0
    /\ terminates' = IF process = "running" THEN 1 ELSE 0
    /\ IF process = "none"
       THEN /\ last_call' = "disconnect"
            /\ last_result' = "returned"
            /\ UNCHANGED <<process, stdout_stream, stderr_stream, stdin_open, tpc>>
       ELSE IF process = "exited" \/ lookup_error
       THEN Cleared
       ELSE /\ tpc' = "waiting"
            /\ UNCHANGED <<process, stdout_stream, stderr_stream, stdin_open,
                           last_call, last_result>>
    /\ UNCHANGED <<timeout, spawns, cause>>
    /\ UNCHANGED <<opened, found_connected>>
    /\ UNCHANGED notTransport

\* line 192: one more second of the wait under fail_after
GraceTick ==
    /\ tpc = "waiting"
    /\ process = "running"
    /\ ~GraceOver(waited, timeout)
    /\ waited' = waited + 1
    /\ UNCHANGED <<process, stdout_stream, stderr_stream, stdin_open, timeout, tpc,
                   terminates, kills, spawns, last_call, last_result, cause>>
    /\ UNCHANGED <<opened, found_connected>>
    /\ UNCHANGED notTransport

\* line 192 and 200-202: the process has exited, wait() returns
WaitReturns ==
    /\ tpc = "waiting"
    /\ process = "exited"
    /\ Cleared
    /\ UNCHANGED <<timeout, waited, terminates, kills, spawns, cause>>
    /\ UNCHANGED <<opened, found_connected>>
    /\ UNCHANGED notTransport

\* lines 193-196: TimeoutError, kill()
GraceExpires ==
    /\ tpc = "waiting"
    /\ process = "running"
    /\ GraceOver(waited, timeout)
    /\ kills' = kills + 1
    /\ tpc' = "killed"
    /\ UNCHANGED <<process, stdout_stream, stderr_stream, stdin_open, timeout, waited,
                   terminates, spawns, last_call, last_result, cause>>
    /\ UNCHANGED <<opened, found_connected>>
    /\ UNCHANGED notTransport

\* lines 197 and 200-202: the killed process is waited for
KillWaitReturns ==
    /\ tpc = "killed"
    /\ Cleared
    /\ UNCHANGED <<timeout, waited, terminates, kills, spawns, cause>>
    /\ UNCHANGED <<opened, found_connected>>
    /\ UNCHANGED notTransport

TransportNext ==
    \/ \E c \in Causes, alive \in BOOLEAN : Connect(c, alive)
    \/ ConnectAgain
    \/ ProcessExits
    \/ \E lookup_error \in BOOLEAN : DisconnectCall(lookup_error)
    \/ GraceTick
    \/ WaitReturns
    \/ GraceExpires
    \/ KillWaitReturns

TransportSpec == TransportSpecInit /\ [][TransportNext]_vars

-----------------------------------------------------------------------------
(* Claims about connect and disconnect (checked under TransportSpec) *)

\* no call of connect() or disconnect() is in progress, and one has ended
Observable == tpc = "ready" /\ last_call # "none"

FullyConnected ==
    /\ process = "running"
    /\ stdin_open /\ stdout_stream /\ stderr_stream
    /\ is_connected

FullyDisconnected ==
    /\ process = "none"
    /\ ~stdin_open /\ ~stdout_stream /\ ~stderr_stream
    /\ ~is_connected

\* C11: whenever a caller can look (after connect() returned or raised, after
\* disconnect() returned) the transport is fully connected (process running,
\* stdin, stdout and stderr open, is_connected() true) or fully disconnected
\* (no handle, no streams, is_connected() false)
ClaimC11 == Observable => (FullyConnected \/ FullyDisconnected)

\* C12: a disconnect() of a running process calls terminate() exactly once,
\* waits no longer than the grace period (options.timeout, 5 s when that is
\* not given), calls kill() only when the whole period has passed with the
\* process still running, never before terminate(), and on return the handle
\* and both streams are cleared
ClaimC12 ==
    /\ terminates <= 1 /\ kills <= 1
    /\ tpc # "ready" => terminates = 1
    /\ waited <= (IF timeout = 0 THEN DefaultGrace ELSE timeout)
    /\ kills = 1 =>
          /\ terminates = 1
          /\ waited = (IF timeout = 0 THEN DefaultGrace ELSE timeout)
    /\ tpc = "killed" => process = "running"
    /\ (tpc = "ready" /\ last_call = "disconnect") =>
          /\ last_result = "returned"
          /\ process = "none" /\ ~stdout_stream /\ ~stderr_stream

\* a disconnect() that returned after terminate, a full grace period of
\* options.timeout = MaxTimeout seconds, and the kill
WitnessC12 ==
    /\ tpc = "ready" /\ last_call = "disconnect"
    /\ timeout = MaxTimeout
    /\ terminates = 1 /\ kills = 1 /\ waited = MaxTimeout
    /\ process = "none"

\* C14: connect() raises CLINotFoundError for a missing executable and
\* CLIConnectionError for every other failure to spawn the process or to open
\* or write its streams, and nothing else escapes it
ClaimC14 ==
    (tpc = "ready" /\ last_call = "connect") =>
        /\ last_result \in {"returned", "CLINotFoundError", "CLIConnectionError"}
        /\ cause = "none" => last_result = "returned"
        /\ cause = "no_executable" => last_result = "CLINotFoundError"
        /\ cause \in {"no_cwd", "no_permission", "stdin_write"} =>
              last_result = "CLIConnectionError"

\* C29: a connect() calls open_process if and only if is_connected() was false
\* when it was called: never with a live process, and always when the earlier
\* process has exited
ClaimC29 == (last_call = "connect") => (opened <=> ~found_connected)

-----------------------------------------------------------------------------
(* receive_messages consumed while disconnect() runs in another task.  The   *)
(* loop of line 228 holds the stream object it iterates, so it reads on      *)
(* after disconnect() has dropped self._stdout_stream; lines 282-283 read    *)
(* self._process again each time.                                            *)

\* the generator object exists and has not run yet, on a connected transport
\* whose CLI writes one line
StreamInit ==
    /\ \E l \in {EmptyObject, Malformed} :
          /\ emitted = <<l>>
          /\ stdout = Written(<<l>>, 1, FALSE)
    /\ pos = 0
    /\ boundary_in_line = FALSE
    /\ chunk_spans_lines = FALSE
    /\ line_str = <<>>
    /\ json_buffer = <<>>
    /\ messages = <<>>
    /\ pc = "new"
    /\ err_kind = "none"
    /\ err_text = <<>>
    /\ exit_code = <<>>
    /\ stderr_text = <<>>

StreamSpecInit ==
    StreamInit /\ ControlInit /\ NoCli /\ TransportConnected /\ LaunchIdle /\ ClientIdle /\ SessionsIdle

\* lines 209-213: the first step of the generator
StartReceive ==
    /\ pc = "new"
    /\ IF process = "none" \/ ~stdout_stream
       THEN /\ pc' = "raised"
            /\ err_kind' = "CLIConnectionError"
       ELSE /\ pc' = "loop"
            /\ UNCHANGED err_kind
    /\ UNCHANGED <<emitted, stdout, pos, boundary_in_line, chunk_spans_lines, line_str,
                   json_buffer, messages, err_text, exit_code, stderr_text>>
    /\ UNCHANGED notReader

\* line 282: self._process.wait() is called on whatever self._process is now
AwaitWait ==
    /\ pc = "wait"
    /\ IF process = "none"
       THEN /\ pc' = "raised"
            /\ err_kind' = "AttributeError"
       ELSE /\ pc' = "waiting"
            /\ UNCHANGED err_kind
    /\ UNCHANGED <<emitted, stdout, pos, boundary_in_line, chunk_spans_lines, line_str,
                   json_buffer, messages, err_text, exit_code, stderr_text>>
    /\ UNCHANGED notReader

\* lines 282-290: the process has exited and the await returns; line 283 reads
\* self._process.returncode on whatever self._process is by then
WaitResumes(returncode, chunks) ==
    /\ pc = "waiting"
    /\ process \in {"exited", "none"}
    /\ IF process = "none"
       THEN /\ pc' = "raised"
            /\ err_kind' = "AttributeError"
            /\ UNCHANGED <<exit_code, stderr_text>>
       ELSE LET stderr_output == StderrOutput(chunks)
            IN /\ exit_code' = <<returncode>>
               /\ stderr_text' = stderr_output
               /\ pc' = IF RaisesProcessError(returncode, stderr_output)
                        THEN "raised" ELSE "done"
               /\ err_kind' = IF RaisesProcessError(returncode, stderr_output)
                              THEN "ProcessError" ELSE err_kind
    /\ UNCHANGED <<emitted, stdout, pos, boundary_in_line, chunk_spans_lines, line_str,
                   json_buffer, messages, err_text>>
    /\ UNCHANGED notReader

StreamNext ==
    \/ StartReceive
    \/ \E n \in 1..Len(stdout) : ReadChunk(n)
    \/ EndOfStream
    \/ AwaitWait
    \/ \E returncode \in {0, 1}, chunks \in StderrRuns : WaitResumes(returncode, chunks)
    \/ ProcessExits
    \/ \E lookup_error \in BOOLEAN : DisconnectCall(lookup_error)
    \/ GraceTick
    \/ WaitReturns
    \/ GraceExpires
    \/ KillWaitReturns

StreamSpec == StreamSpecInit /\ [][StreamNext]_vars

\* the errors of the SDK that receive_messages raises (lines 210, 264, 280, 286)
SdkErrors == {"CLIConnectionError", "CLIJSONDecodeError", "ProcessError"}

\* C30: when disconnect() has been called while receive_messages() is being
\* consumed, the generator finishes or raises CLIConnectionError,
\* CLIJSONDecodeError or ProcessError, and nothing else
ClaimC30 ==
    (pc = "raised" /\ (tpc # "ready" \/ last_call = "disconnect")) =>
        err_kind \in SdkErrors

-----------------------------------------------------------------------------
(* SubprocessCLITransport._find_cli *)

\* lines 76 and 78: exists() and is_file()
IsHit(status) == status = "file"

\* line 75: glob.glob(pattern), the existing paths that match
Glob(fs) == SelectSeq(NvmPaths, LAMBDA p : fs[p] # "missing")

\* lines 71-79: the paths the loop tests, in the order it tests them
RECURSIVE Candidates(_, _)
Candidates(fs, i) ==
    IF i > Len(Locations) THEN <<>>
    ELSE (IF Locations[i] = NvmPattern THEN Glob(fs) ELSE <<Locations[i]>>)
            \o Candidates(fs, i + 1)

\* lines 71-79: the first of them that is a file, "" when none is
RECURSIVE FirstFile(_, _)
FirstFile(fs, ps) ==
    IF ps = <<>> THEN ""
    ELSE IF IsHit(fs[Head(ps)]) THEN Head(ps)
    ELSE FirstFile(fs, Tail(ps))

\* FindCli with the list consulted before the search path
FindCliListFirst(which_c, fs, node) ==
    IF FirstFile(fs, Candidates(fs, 1)) # ""
    THEN [path |-> FirstFile(fs, Candidates(fs, 1)), error |-> "none"]
    ELSE IF which_c # "" THEN [path |-> which_c, error |-> "none"]
    ELSE IF ~node THEN [path |-> "", error |-> "node"]
    ELSE [path |-> "", error |-> "claude"]

\* lines 47-97: error "node" is the CLINotFoundError of lines 84-88 ("Claude
\* Code requires Node.js, ..."), "claude" the one of lines 90-97 ("Claude Code
\* not found. Install with: ...")
FindCli(which_c, fs, node) ==
    IF which_c # "" THEN [path |-> which_c, error |-> "none"]
    ELSE IF FirstFile(fs, Candidates(fs, 1)) # ""
    THEN [path |-> FirstFile(fs, Candidates(fs, 1)), error |-> "none"]
    ELSE IF ~node THEN [path |-> "", error |-> "node"]
    ELSE [path |-> "", error |-> "claude"]

\* the file systems of the model: at most MaxHits of the paths exist, each as
\* a file or as a directory
FileSystems ==
    UNION { { [p \in Paths |-> IF p \in S THEN k[p] ELSE "missing"] :
                k \in [S -> {"file", "dir"}] } :
            S \in {T \in SUBSET Paths : Cardinality(T) <= MaxHits} }

\* SubprocessCLITransport(prompt, options) with no cli_path, about to run
FinderInit ==
    /\ which_claude \in {"", "/usr/bin/claude"}
    /\ which_node \in BOOLEAN
    /\ files \in FileSystems
    /\ options = DefaultOptions
    /\ prompt = "Hello"
    /\ cli_path = ""
    /\ find_error = "none"
    /\ cmd = <<>>
    /\ lpc = "new"

FinderSpecInit == ReaderIdle /\ ControlInit /\ NoCli /\ TransportIdle /\ FinderInit /\ ClientIdle /\ SessionsIdle

\* line 36 without a cli_path: self._cli_path = self._find_cli()
Construct ==
    /\ lpc = "new"
    /\ LET found == FindCli(which_claude, files, which_node)
       IN /\ cli_path' = found.path
          /\ find_error' = found.error
          /\ lpc' = IF found.error = "none" THEN "found" ELSE "failed"
    /\ UNCHANGED <<which_claude, which_node, files, options, prompt, cmd>>
    /\ UNCHANGED notLaunch

FinderNext == Construct

FinderSpec == FinderSpecInit /\ [][FinderNext]_vars

\* every path the search can return from the list, in the listed order
ListedOrder == SubSeq(Locations, 1, 7) \o NvmPaths \o SubSeq(Locations, 9, 12)

Rank(p) == CHOOSE i \in 1..Len(ListedOrder) : ListedOrder[i] = p

\* C16: _find_cli returns the 'claude' of the search path when there is one,
\* else the first of the well-known paths, in their listed order, that is a
\* file; when there is none it raises CLINotFoundError, with the Node.js
\* guidance exactly when 'node' is not on the search path and with the
\* Claude Code guidance otherwise
ClaimC16 ==
    lpc \in {"found", "failed"} =>
        /\ lpc = "found" <=> (find_error = "none" /\ cli_path # "")
        /\ which_claude # "" => (lpc = "found" /\ cli_path = which_claude)
        /\ (which_claude = "" /\ \E p \in Paths : files[p] = "file") =>
              /\ lpc = "found"
              /\ cli_path \in Paths
              /\ files[cli_path] = "file"
              /\ \A q \in Paths : files[q] = "file" => Rank(cli_path) <= Rank(q)
        /\ (which_claude = "" /\ \A p \in Paths : files[p] # "file") =>
              /\ lpc = "failed"
              /\ cli_path = ""
              /\ find_error = (IF which_node THEN "claude" ELSE "node")

\* nothing on the search path, a directory at the first listed path and files
\* at the second and third: the second is returned
WitnessC16 ==
    /\ lpc = "found"
    /\ which_claude = ""
    /\ files["~/.npm-global/bin/claude"] = "dir"
    /\ files["/usr/local/bin/claude"] = "file"
    /\ files["~/.local/bin/claude"] = "file"
    /\ cli_path = "/usr/local/bin/claude"

-----------------------------------------------------------------------------
(* SubprocessCLITransport._build_command *)

\* ",".join(xs)
RECURSIVE JoinComma(_)
JoinComma(xs) ==
    IF xs = <<>> THEN ""
    ELSE IF Len(xs) = 1 THEN xs[1]
    ELSE xs[1] \o "," \o JoinComma(Tail(xs))

\* line 137: json.dumps({"mcpServers": servers}), servers given as its JSON text
McpConfig(servers) == "{\"mcpServers\": " \o servers \o "}"

\* a flag with its value, when the value is truthy
Flag(name, value) == IF value # "" THEN <<name, value>> ELSE <<>>

\* lines 99-141
BuildCommand(path, o) ==
    <<path, "--output-format", "stream-json", "--verbose">>
    \o Flag("--system-prompt", o.system_prompt)
    \o Flag("--append-system-prompt", o.append_system_prompt)
    \o (IF o.allowed_tools # <<>>
        THEN <<"--allowedTools", JoinComma(o.allowed_tools)>> ELSE <<>>)
    \o (IF o.max_turns # 0 THEN <<"--max-turns", ToString(o.max_turns)>> ELSE <<>>)
    \o (IF o.disallowed_tools # <<>>
        THEN <<"--disallowedTools", JoinComma(o.disallowed_tools)>> ELSE <<>>)
    \o Flag("--model", o.model)
    \o Flag("--permission-prompt-tool", o.permission_prompt_tool_name)
    \o Flag("--permission-mode", o.permission_mode)
    \o (IF o.continue_conversation THEN <<"--continue">> ELSE <<>>)
    \o Flag("--resume", o.resume)
    \o (IF o.mcp_servers # "" THEN <<"--mcp-config", McpConfig(o.mcp_servers)>> ELSE <<>>)

\* the options of the model: every field _build_command reads, unset or set
OptionSets ==
    [system_prompt : {"", "Be helpful"},
     append_system_prompt : {"", "Be brief"},
     allowed_tools : {<<>>, <<"Read">>, <<"Read", "Write">>},
     max_turns : 0..MaxTurns,
     disallowed_tools : {<<>>, <<"Bash">>},
     model : {"", "claude-3-5-sonnet"},
     permission_prompt_tool_name : {"", "approve"},
     permission_mode : {"", "acceptEdits"},
     continue_conversation : BOOLEAN,
     resume : {"", "session-1"},
     mcp_servers : {"", "{\"calc\": {}}"}]

\* SubprocessCLITransport(prompt, options, cli_path="/usr/bin/claude"), built
CommandInit ==
    /\ which_claude = ""
    /\ which_node = FALSE
    /\ files = [p \in Paths |-> "missing"]
    /\ options \in OptionSets
    /\ prompt \in {"Hello", "What is 2+2?"}
    /\ cli_path = "/usr/bin/claude"
    /\ find_error = "none"
    /\ cmd = <<>>
    /\ lpc = "found"

CommandSpecInit ==
    ReaderIdle /\ ControlInit /\ NoCli /\ TransportIdle /\ CommandInit /\ ClientIdle /\ SessionsIdle

\* line 148: cmd = self._build_command()
BuildCmd ==
    /\ lpc = "found"
    /\ cmd' = BuildCommand(cli_path, options)
    /\ lpc' = "built"
    /\ UNCHANGED <<which_claude, which_node, files, options, prompt, cli_path, find_error>>
    /\ UNCHANGED notLaunch

CommandNext == BuildCmd

CommandSpec == CommandSpecInit /\ [][CommandNext]_vars

\* C15: the command starts with the CLI path, always holds --output-format
\* stream-json and --verbose, and carries the prompt on argv as --print
\* followed by the prompt text
ClaimC15 ==
    lpc = "built" =>
        /\ cmd[1] = cli_path
        /\ \E i \in 1..(Len(cmd) - 1) :
              cmd[i] = "--output-format" /\ cmd[i + 1] = "stream-json"
        /\ "--verbose" \in Range(cmd)
        /\ \E j \in 1..(Len(cmd) - 1) : cmd[j] = "--print" /\ cmd[j + 1] = prompt

-----------------------------------------------------------------------------
(* StatefulCLIClient: sessions, messages and slash commands.  A text is the *)
(* sequence of its words, with "/" and " " as words of their own.           *)

\* the session ids of the model
Ids == {"s1", "s2", "s3"}

\* the messages and command texts a caller sends
Texts ==
    { <<"hello">>, <<"/">>, <<"/", "help">>, <<"/", "exit">>, <<"/", "history">>,
      <<"/", "clear">>, <<"/", "resume">>, <<"/", "resume", " ", "s2">>,
      <<"/", "resume", " ", "s3">>, <<"/", "frobnicate">> }

\* what the environment lets fail in one call: nothing, the construction of a
\* StatefulCLITransport, the save of a newly created session, the save made
\* when a session ends
Fails == {"none", "construct", "start", "save"}

\* the client's fields as one value, so that nested calls can be composed;
\* saves and ends count what the call in progress has done, raised is the
\* exception in flight
Now ==
    [a |-> active, sid |-> session_id, tr |-> transport, st |-> stored,
     tid |-> next_tid, saves |-> 0, ends |-> 0, by |-> ended_by, raised |-> "none"]

\* SessionExists with the check lost
SessionExistsAlways(id, st) == TRUE

\* session_persistence.py lines 250-252
SessionExists(id, st) == id \in st

\* NoActiveSession with the check lost
NoActiveSessionNever(a, t) == FALSE

\* stateful_client.py line 237
NoActiveSession(a, t) == ~a \/ t = NoTransport

\* stateful_client.py lines 114-121 and 156-163, with
\* StatefulCLITransport.__init__ and start_session(resume=True)
\* (subprocess_stateful_cli.py lines 35-50 and 87-127); err is what the
\* except clause of the caller raises
StartTransport(c, fail, err) ==
    IF fail = "construct" THEN [c EXCEPT !.raised = err]
    ELSE LET t == [tid |-> c.tid, sid |-> c.sid, session_active |-> FALSE]
         IN IF c.sid \notin c.st /\ fail = "start"
            THEN [c EXCEPT !.tr = t, !.tid = @ + 1, !.raised = err]
            ELSE [c EXCEPT !.tr = [t EXCEPT !.session_active = TRUE],
                           !.tid = @ + 1,
                           !.a = TRUE,
                           !.st = @ \cup {c.sid},
                           !.saves = @ + (IF c.sid \in c.st THEN 0 ELSE 1)]

\* stateful_client.py lines 99-128
StartSessionF(c, fail) ==
    IF c.a THEN c ELSE StartTransport(c, fail, "SessionError")

\* stateful_client.py lines 172-192, with StatefulCLITransport.end_session
\* (subprocess_stateful_cli.py lines 129-135); how names the caller
EndSessionF(c, save, fail, how) ==
    IF ~c.a THEN c
    ELSE IF c.tr = NoTransport THEN [c EXCEPT !.a = FALSE, !.ends = @ + 1, !.by = how]
    ELSE IF save /\ fail = "save" THEN [c EXCEPT !.raised = "OSError"]
    ELSE [c EXCEPT !.tr = NoTransport,
                   !.a = FALSE,
                   !.saves = @ + (IF save THEN 1 ELSE 0),
                   !.st = IF save THEN @ \cup {c.tr.sid} ELSE @,
                   !.ends = @ + 1,
                   !.by = how]

\* stateful_client.py lines 130-170
ResumeSessionF(c, id, fail) ==
    IF ~SessionExists(id, c.st) THEN [c EXCEPT !.raised = "SessionNotFoundError"]
    ELSE LET e == EndSessionF(c, TRUE, fail, "resume_session")
         IN IF e.raised # "none" THEN e
            ELSE StartTransport([e EXCEPT !.sid = id], fail, "SessionCorruptedError")

\* slash_commands.py lines 355-357
IsCommand(text) == text # <<>> /\ text[1] = "/" /\ Len(text) > 1

\* slash_commands.py lines 364-366: text[1:].split(), the name, the arguments
Words(text) == SelectSeq(Tail(text), LAMBDA w : w # " ")
CommandName(text) == IF Words(text) = <<>> THEN "" ELSE Words(text)[1]
Args(text) == IF Len(Words(text)) > 1 THEN Tail(Words(text)) ELSE <<>>

\* slash_commands.py lines 370-393 with the execute methods of the built-in
\* commands (lines 42-320): the client afterwards and CommandResult.success;
\* an exception of a command is caught at line 386
ExecuteCommand(c, text, cmds, fail) ==
    LET name == CommandName(text)
        args == Args(text)
        has_data == c.tr # NoTransport
    IN CASE name \notin cmds -> [c |-> c, success |-> FALSE]
         [] name \in {"help", "sessions"} -> [c |-> c, success |-> TRUE]
         [] name = "exit" ->
              LET e == EndSessionF(c, TRUE, fail, "/exit")
              IN [c |-> [e EXCEPT !.raised = "none"], success |-> e.raised = "none"]
         [] name = "clear" ->
              IF has_data /\ fail # "save"
              THEN [c |-> [c EXCEPT !.saves = @ + 1, !.st = @ \cup {c.tr.sid}],
                    success |-> TRUE]
              ELSE [c |-> c, success |-> FALSE]
         [] name \in {"history", "info"} -> [c |-> c, success |-> has_data]
         [] name = "search" -> [c |-> c, success |-> (args # <<>> /\ has_data)]
         [] name = "resume" ->
              IF args = <<>> THEN [c |-> c, success |-> FALSE]
              ELSE LET r == ResumeSessionF(c, args[1], fail)
                   IN [c |-> [r EXCEPT !.raised = "none"], success |-> r.raised = "none"]
         [] OTHER -> [c |-> c, success |-> FALSE]

\* subprocess_stateful_cli.py lines 26-500: the class defines no
\* receive_messages method
HasReceiveMessages == FALSE

\* stateful_client.py lines 281-305: how iterating _stream_responses() ends
StreamResponses(t) ==
    IF t = NoTransport THEN "empty"
    ELSE IF HasReceiveMessages THEN "yielded"
    ELSE "AttributeError"

\* StatefulCLIClient(session_id="s1"), lines 79-88, over a storage directory
\* that may hold sessions of earlier runs
ClientInit ==
    /\ enable_slash_commands \in BOOLEAN
    /\ commands = Builtin
    /\ active = FALSE
    /\ session_id = "s1"
    /\ transport = NoTransport
    /\ stored \in SUBSET {"s1", "s2"}
    /\ next_tid = 1
    /\ op = "none"
    /\ op_text = <<>>
    /\ op_outcome = "none"
    /\ result = "none"
    /\ was_active = FALSE
    /\ op_stream = FALSE
    /\ cli_result = "none"
    /\ op_saves = 0
    /\ op_ends = 0
    /\ ended_by = "none"
    /\ iterator = "none"

ClientSpecInit == ReaderIdle /\ ControlInit /\ NoCli /\ TransportIdle /\ LaunchIdle /\ ClientInit /\ SessionsIdle

\* the fields of the client after a call, and what the call saved and ended
Apply(c) ==
    /\ active' = c.a
    /\ session_id' = c.sid
    /\ transport' = c.tr
    /\ stored' = c.st
    /\ next_tid' = c.tid
    /\ op_saves' = c.saves
    /\ op_ends' = c.ends
    /\ ended_by' = c.by

\* the record of a call that is no send_message
Ended(name, text, c) ==
    /\ op' = name
    /\ op_text' = text
    /\ op_outcome' = IF c.raised = "none" THEN "returned" ELSE c.raised
    /\ was_active' = active
    /\ op_stream' = FALSE
    /\ cli_result' = "none"

\* a call that may create a StatefulCLITransport is taken only while the
\* model has one left
MayCreate(text) ==
    (CommandName(text) = "resume" /\ Args(text) # <<>>) => next_tid <= MaxTransports

\* stateful_client.py lines 99-128
StartSession(fail) ==
    /\ next_tid <= MaxTransports
    /\ LET c == StartSessionF(Now, fail)
       IN /\ Apply(c)
          /\ Ended("start_session", <<>>, c)
          /\ result' = IF c.raised = "none" THEN "id" ELSE "none"
    /\ UNCHANGED <<enable_slash_commands, commands, iterator>>
    /\ UNCHANGED notClient

\* stateful_client.py lines 130-170
ResumeSession(id, fail) ==
    /\ next_tid <= MaxTransports
    /\ LET c == ResumeSessionF(Now, id, fail)
       IN /\ Apply(c)
          /\ Ended("resume_session", <<id>>, c)
          /\ result' = IF c.raised = "none" THEN "true" ELSE "none"
    /\ UNCHANGED <<enable_slash_commands, commands, iterator>>
    /\ UNCHANGED notClient

\* stateful_client.py lines 172-192
EndSession(save, fail) ==
    /\ LET c == EndSessionF(Now, save, fail, "end_session")
       IN /\ Apply(c)
          /\ Ended("end_session", <<>>, c)
          /\ result' = "none"
    /\ UNCHANGED <<enable_slash_commands, commands, iterator>>
    /\ UNCHANGED notClient

\* stateful_client.py lines 218-279; cli is how the CLI invocation of
\* send_user_message (subprocess_stateful_cli.py lines 137-157) ends
SendMessage(text, stream, cli, fail) ==
    /\ MayCreate(text)
    /\ op' = "send_message"
    /\ op_text' = text
    /\ was_active' = active
    /\ op_stream' = stream
    /\ IF NoActiveSession(active, transport)
       THEN /\ Apply(Now)
            /\ op_outcome' = "SessionNotActiveError"
            /\ result' = "none"
            /\ cli_result' = "none"
            /\ UNCHANGED iterator
       ELSE IF enable_slash_commands /\ IsCommand(text)
       THEN /\ Apply(ExecuteCommand(Now, text, commands, fail).c)
            /\ op_outcome' = "returned"
            /\ result' = IF stream THEN "iterator" ELSE "command_result"
            /\ cli_result' = "none"
            /\ iterator' = IF stream THEN "command" ELSE iterator
       ELSE /\ Apply(Now)
            /\ cli_result' = cli
            /\ IF cli = "failed"
               THEN /\ op_outcome' = "CLIConnectionError"
                    /\ result' = "none"
                    /\ UNCHANGED iterator
               ELSE IF stream
               THEN /\ op_outcome' = "returned"
                    /\ result' = "iterator"
                    /\ iterator' = "stream"
               ELSE /\ op_outcome' = IF StreamResponses(transport) = "AttributeError"
                                    THEN "CLIConnectionError" ELSE "returned"
                    /\ result' = CASE StreamResponses(transport) = "yielded" -> "reply"
                                   [] StreamResponses(transport) = "empty" -> "empty_reply"
                                   [] OTHER -> "none"
                    /\ UNCHANGED iterator
    /\ UNCHANGED <<enable_slash_commands, commands>>
    /\ UNCHANGED notClient

\* stateful_client.py lines 254-257 and 281-305: the caller iterates what
\* send_message returned
ConsumeStream ==
    /\ iterator \in {"command", "stream"}
    /\ iterator' = IF iterator = "command" THEN "yielded" ELSE StreamResponses(transport)
    /\ UNCHANGED <<enable_slash_commands, commands, active, session_id, transport,
                   stored, next_tid, op, op_text, op_outcome, result, was_active,
                   op_stream, cli_result, op_saves, op_ends, ended_by>>
    /\ UNCHANGED notClient

\* stateful_client.py lines 321-334: the error send_command raises, "none"
\* when it returns the result
SendCommandError(enabled, text, success) ==
    IF ~enabled THEN "InvalidCommandError"
    ELSE IF ~IsCommand(text) THEN "InvalidCommandError"
    ELSE IF ~success THEN "CommandExecutionError"
    ELSE "none"

\* stateful_client.py lines 307-334
SendCommand(text, fail) ==
    /\ MayCreate(text)
    /\ LET runs == enable_slash_commands /\ IsCommand(text)
           x == IF runs THEN ExecuteCommand(Now, text, commands, fail)
                ELSE [c |-> Now, success |-> FALSE]
           err == SendCommandError(enable_slash_commands, text, x.success)
       IN /\ Apply(x.c)
          /\ Ended("send_command", text, [raised |-> err])
          /\ result' = IF err = "none" THEN "command_result" ELSE "none"
    /\ UNCHANGED <<enable_slash_commands, commands, iterator>>
    /\ UNCHANGED notClient

\* stateful_client.py lines 481-486 and slash_commands.py lines 350-353
UnregisterCommand(name) ==
    /\ LET c == Now
       IN /\ Apply(c)
          /\ Ended("unregister_command", <<name>>, c)
          /\ result' = "none"
    /\ commands' = IF enable_slash_commands THEN commands \ {name} ELSE commands
    /\ UNCHANGED <<enable_slash_commands, iterator>>
    /\ UNCHANGED notClient

\* the failures that bear on a text: only some commands save or create
FailsOf(text) ==
    CASE CommandName(text) \in {"exit", "clear"} -> {"none", "save"}
      [] CommandName(text) = "resume" /\ Args(text) # <<>> -> Fails
      [] OTHER -> {"none"}

\* how the CLI invocation for a text can end; for the texts in command form
\* (sent to the CLI only when slash commands are disabled) failure is left out
CliOf(text) == IF IsCommand(text) THEN {"ok"} ELSE {"ok", "failed"}

ClientNext ==
    \/ \E fail \in {"none", "construct", "start"} : StartSession(fail)
    \/ \E id \in Ids, fail \in Fails : ResumeSession(id, fail)
    \/ \E save \in BOOLEAN, fail \in {"none", "save"} : EndSession(save, fail)
    \/ \E text \in Texts, stream \in BOOLEAN :
          \E cli \in CliOf(text), fail \in FailsOf(text) :
             SendMessage(text, stream, cli, fail)
    \/ ConsumeStream
    \/ \E text \in Texts : \E fail \in FailsOf(text) : SendCommand(text, fail)
    \/ UnregisterCommand("help")

ClientSpec == ClientSpecInit /\ [][ClientNext]_vars

-----------------------------------------------------------------------------
(* Claims about StatefulCLIClient (checked under ClientSpec) *)

\* the text of the last send_command names a command the client recognizes
Recognized ==
    /\ enable_slash_commands
    /\ IsCommand(op_text)
    /\ CommandName(op_text) \in commands

\* C17: send_command raises InvalidCommandError when the command is not
\* recognized (slash commands disabled, text not in command form, or a name
\* that is not registered) and CommandExecutionError only when a recognized
\* command fails
ClaimC17 ==
    op = "send_command" =>
        /\ ~Recognized => op_outcome = "InvalidCommandError"
        /\ op_outcome = "CommandExecutionError" => Recognized

\* C18: a send_message made with no active session raises
\* SessionNotActiveError and invokes no CLI; end_session leaves no active
\* session; and a session becomes active only by a start_session or a
\* resume_session that succeeds (resume_session also as the /resume command)
ClaimC18 ==
    /\ [](/\ (op = "send_message" /\ ~was_active) =>
                (op_outcome = "SessionNotActiveError" /\ cli_result = "none")
          /\ (op = "end_session" /\ op_outcome = "returned") => ~active)
    /\ [][(~active /\ active') =>
             /\ op_outcome' = "returned"
             /\ \/ op' \in {"start_session", "resume_session"}
                \/ op' = "send_command" /\ CommandName(op_text') = "resume"]_vars

\* a send_message that raised SessionNotActiveError after /exit had ended
\* the session
WitnessC18 ==
    /\ op = "send_message"
    /\ op_text = <<"hello">>
    /\ ~was_active
    /\ ended_by = "/exit"
    /\ op_outcome = "SessionNotActiveError"

\* C19: on an active session a send_message whose text goes to the CLI, the
\* CLI call succeeding, does not end in an error: without streaming it
\* returns the reply, with streaming an iterator that yields the reply
ClaimC19 ==
    (op = "send_message" /\ was_active /\ cli_result = "ok") =>
        /\ op_outcome = "returned"
        /\ ~op_stream => result = "reply"
        /\ op_stream => (result = "iterator" /\ iterator \in {"stream", "yielded"})

\* C20: resume_session(id) for an id with no stored session raises
\* SessionNotFoundError and changes nothing: the same session stays active
\* with the same id and transport, nothing is ended, nothing is saved
ClaimC20 ==
    [][(op' = "resume_session" /\ Head(op_text') \notin stored) =>
          /\ op_outcome' = "SessionNotFoundError"
          /\ active' = active
          /\ session_id' = session_id
          /\ transport' = transport
          /\ stored' = stored
          /\ op_saves' = 0
          /\ op_ends' = 0]_vars

\* resume_session("s3") on an active session, "s3" not stored
WitnessC20 ==
    /\ op = "resume_session"
    /\ op_text = <<"s3">>
    /\ op_outcome = "SessionNotFoundError"
    /\ was_active /\ active
    /\ transport # NoTransport
    /\ "s3" \notin stored

-----------------------------------------------------------------------------
(* SessionPersistence and SessionData (session_persistence.py).  A datetime   *)
(* is [sec, us]; its ISO text is the sequence of the pieces isoformat()      *)
(* writes.  A Python value that json.dump may meet in the options is tagged   *)
(* with its type.                                                            *)

NoneValue == [t |-> "None", v |-> ""]
StrValue(x) == [t |-> "str", v |-> x]
PathValue(x) == [t |-> "Path", v |-> x]

DateTime(sec, us) == [sec |-> sec, us |-> us]

\* datetime.isoformat(): the fraction is written only when microsecond # 0
IsoFormat(dt) ==
    IF dt.us = 0 THEN <<ToString(dt.sec)>>
    ELSE <<ToString(dt.sec), ".", ToString(dt.us)>>

\* int() of one piece of an ISO text
ParseInt(piece) == CHOOSE n \in 0..9 : ToString(n) = piece

\* datetime.fromisoformat(): a text without fraction has microsecond 0
FromIsoFormat(text) ==
    [sec |-> ParseInt(text[1]),
     us |-> IF Len(text) = 3 THEN ParseInt(text[3]) ELSE 0]

\* lines 25-33
MessageToDict(m) ==
    [role |-> m.role, content |-> m.content, timestamp |-> IsoFormat(m.timestamp),
     message_type |-> m.message_type, usage |-> m.usage]

\* lines 36-44
MessageFromDict(x) ==
    [role |-> x.role, content |-> x.content,
     timestamp |-> FromIsoFormat(x.timestamp),
     message_type |-> x.message_type, usage |-> x.usage]

\* lines 69-81: options is self.options.__dict__, the values as they are
ToDict(d) ==
    [session_id |-> d.session_id,
     start_time |-> IsoFormat(d.start_time),
     last_activity |-> IsoFormat(d.last_activity),
     conversation_history |->
         [i \in 1..Len(d.conversation_history) |->
             MessageToDict(d.conversation_history[i])],
     options |-> d.options,
     metadata |-> d.metadata,
     working_directory |-> d.working_directory]

\* lines 84-101
FromDict(x) ==
    [session_id |-> x.session_id,
     start_time |-> FromIsoFormat(x.start_time),
     last_activity |-> FromIsoFormat(x.last_activity),
     conversation_history |->
         [i \in 1..Len(x.conversation_history) |->
             MessageFromDict(x.conversation_history[i])],
     options |-> x.options,
     metadata |-> x.metadata,
     working_directory |-> x.working_directory]

\* json.dump accepts str and None and raises TypeError for a Path
Serializable(value) == value.t \in {"None", "str"}

\* whether json.dump (line 146) can write the whole dict
JsonSafe(x) == x.options = <<>> \/ Serializable(x.options[1].cwd)

\* lines 145-146: what is in the file when the with block is left; the file
\* is truncated on open and json.dump writes piece by piece, so a TypeError
\* leaves the beginning of the text
JsonDump(x) == [complete |-> JsonSafe(x), doc |-> x]

\* lines 168-169: json.load of the file: <<the dict>>, <<>> for JSONDecodeError
JsonLoad(file) == IF file.complete THEN <<file.doc>> ELSE <<>>

\* line 164, 187, 252: file_path.exists()
Exists(st, id) == st[id] # <<>>

\* ConversationMessage values
UserMsg(text, sec) ==
    [role |-> "user", content |-> text, timestamp |-> DateTime(sec, 5),
     message_type |-> "text", usage |-> <<>>]
AssistantMsg(text, sec) ==
    [role |-> "assistant", content |-> text, timestamp |-> DateTime(sec, 0),
     message_type |-> "text", usage |-> <<"tokens">>]

\* ClaudeCodeOptions values: the default, a model, cwd as str, cwd as Path
\* (examples/setting_sources.py passes a Path)
OptionValues ==
    { [model |-> "", cwd |-> NoneValue],
      [model |-> "sonnet", cwd |-> NoneValue],
      [model |-> "", cwd |-> StrValue("/w")],
      [model |-> "", cwd |-> PathValue("/w")] }

SessionDataOf(id, start, last, history, opts, wd) ==
    [session_id |-> id, start_time |-> start, last_activity |-> last,
     conversation_history |-> history, options |-> opts, metadata |-> <<>>,
     working_directory |-> wd]

\* the SessionData values callers save
Datas ==
    { SessionDataOf("s1", DateTime(1, 0), DateTime(1, 0), <<>>, <<>>, <<>>),
      SessionDataOf("s1", DateTime(1, 5), DateTime(3, 0),
                    <<UserMsg("hello", 2), AssistantMsg("reply", 3)>>,
                    <<[model |-> "sonnet", cwd |-> NoneValue]>>, <<"/w">>),
      SessionDataOf("s2", DateTime(2, 0), DateTime(2, 5), <<UserMsg("hello", 2)>>,
                    <<[model |-> "", cwd |-> StrValue("/w")]>>, <<"/w">>),
      SessionDataOf("s2", DateTime(2, 5), DateTime(2, 5), <<>>,
                    <<[model |-> "", cwd |-> PathValue("/w")]>>, <<"/w">>),
      SessionDataOf("s1", DateTime(1, 0), DateTime(3, 0), <<UserMsg("hello", 3)>>,
                    <<[model |-> "", cwd |-> PathValue("/w")]>>, <<>>) }

\* lines 152-173: load_session as a function of the storage
Load(st, id) ==
    IF ~Exists(st, id) THEN <<>>
    ELSE IF JsonLoad(st[id][1]) = <<>> THEN <<>>
    ELSE <<FromDict(JsonLoad(st[id][1])[1])>>

\* lines 135-150: save_session as a function of the storage
Save(st, d) == [st EXCEPT ![d.session_id] = <<JsonDump(ToDict(d))>>]

\* lines 148-150: the exception save_session lets through, "returned" if none
SaveOutcome(d) == IF JsonSafe(ToDict(d)) THEN "returned" ELSE "TypeError"

PersistenceInit == PersistenceIdle

PersistenceSpecInit ==
    ReaderIdle /\ ControlInit /\ NoCli /\ TransportIdle /\ LaunchIdle /\ ClientIdle
    /\ PersistenceInit /\ StatefulIdle

SaveSession(d) ==
    /\ storage' = Save(storage, d)
    /\ pop' = "save"
    /\ parg' = d.session_id
    /\ pres' = SaveOutcome(d)
    /\ last_saved' = [last_saved EXCEPT ![d.session_id] = <<d>>]
    /\ was_deleted' = (d.session_id \in deleted)
    /\ deleted' = deleted \ {d.session_id}
    /\ UNCHANGED <<ploaded, plisted, existed>>
    /\ UNCHANGED notPersistence

LoadSession(id) ==
    /\ pop' = "load"
    /\ parg' = id
    /\ pres' = "returned"
    /\ ploaded' = Load(storage, id)
    /\ was_deleted' = (id \in deleted)
    /\ UNCHANGED <<storage, plisted, last_saved, existed, deleted>>
    /\ UNCHANGED notPersistence

\* DeleteSession with the test of line 187 lost
DeleteReturnsAlwaysTrue(found, unlink_fails) == "True"

\* lines 187-195: what delete_session returns or raises
DeleteReturns(found, unlink_fails) ==
    IF found THEN (IF unlink_fails THEN "OSError" ELSE "True") ELSE "False"

\* lines 175-195; unlink_fails is file_path.unlink() raising
DeleteSession(id, unlink_fails) ==
    /\ pop' = "delete"
    /\ parg' = id
    /\ existed' = Exists(storage, id)
    /\ was_deleted' = (id \in deleted)
    /\ pres' = DeleteReturns(Exists(storage, id), unlink_fails)
    /\ IF Exists(storage, id) /\ ~unlink_fails
       THEN /\ storage' = [storage EXCEPT ![id] = <<>>]
            /\ last_saved' = [last_saved EXCEPT ![id] = <<>>]
            /\ deleted' = deleted \cup {id}
       ELSE UNCHANGED <<storage, last_saved, deleted>>
    /\ UNCHANGED <<ploaded, plisted>>
    /\ UNCHANGED notPersistence

\* lines 227-235: the summary of one readable file
SummaryOf(doc) ==
    [session_id |-> doc.session_id,
     start_time |-> FromIsoFormat(doc.start_time),
     last_activity |-> FromIsoFormat(doc.last_activity),
     message_count |-> Len(doc.conversation_history)]

\* lines 212-238: the summaries of the files json.load can read
Summaries(st) ==
    { SummaryOf(JsonLoad(st[i][1])[1]) :
        i \in {j \in SessionIds : Exists(st, j) /\ JsonLoad(st[j][1]) # <<>>} }

\* a datetime as a number, for comparison
Stamp(dt) == dt.sec * 10 + dt.us

\* lines 241-246: the sort key
SortKey(summary, order_by) ==
    CASE order_by = "start_time" -> Stamp(summary.start_time)
      [] order_by = "message_count" -> summary.message_count
      [] OTHER -> Stamp(summary.last_activity)

\* lines 241-246: the orders sort(reverse=True) can leave; glob gives the
\* files in any order, so equal keys may come out either way
Sorted(S, order_by) ==
    { q \in [1..Cardinality(S) -> S] :
        /\ \A i, j \in 1..Cardinality(S) : i # j => q[i] # q[j]
        /\ \A i, j \in 1..Cardinality(S) :
              i < j => SortKey(q[i], order_by) >= SortKey(q[j], order_by) }

\* line 248: sessions[:limit]
Take(q, limit) == SubSeq(q, 1, IF limit < Len(q) THEN limit ELSE Len(q))

\* lines 197-248
ListSessions(order_by, limit) ==
    /\ pop' = "list"
    /\ parg' = ""
    /\ pres' = "returned"
    /\ \E q \in Sorted(Summaries(storage), order_by) : plisted' = Take(q, limit)
    /\ was_deleted' = FALSE
    /\ UNCHANGED <<storage, ploaded, last_saved, existed, deleted>>
    /\ UNCHANGED notPersistence

PersistenceNext ==
    \/ \E d \in Datas : SaveSession(d)
    \/ \E id \in SessionIds : LoadSession(id)
    \/ \E id \in SessionIds, unlink_fails \in BOOLEAN : DeleteSession(id, unlink_fails)
    \/ \E order_by \in {"last_activity", "start_time", "message_count"},
          limit \in {1, DefaultLimit} : ListSessions(order_by, limit)

PersistenceSpec == PersistenceSpecInit /\ [][PersistenceNext]_vars

-----------------------------------------------------------------------------
(* Claims about SessionPersistence (checked under PersistenceSpec) *)

\* C22: loading a session by its id returns a SessionData equal to the one
\* that was last given to save_session for that id: same session_id,
\* start_time, last_activity, working_directory, options and history
ClaimC22 ==
    (pop = "load" /\ last_saved[parg] # <<>>) =>
        (ploaded # <<>> /\ ploaded[1] = last_saved[parg][1])

\* the same for the saves that returned: what is in the file is the last
\* SessionData whose save returned or nothing readable
SavedRoundTrip ==
    \A id \in SessionIds :
        (last_saved[id] # <<>> /\ SaveOutcome(last_saved[id][1]) = "returned") =>
            Load(storage, id) = last_saved[id]

\* the ids in a listing
Listed == {plisted[i].session_id : i \in 1..Len(plisted)}

-----------------------------------------------------------------------------
(* StatefulCLITransport (subprocess_stateful_cli.py): one run of the CLI per  *)
(* message, with --resume.  A run of the CLI is [kind, sid, has_result]:      *)
(* kind is "success" or "error_during_execution" for a JSON object with that  *)
(* subtype, sid its session_id ("" when the key is absent), has_result        *)
(* whether it has a result key; the other kinds are runs that give no object. *)

Runs ==
    { [kind |-> "success", sid |-> i, has_result |-> r] :
        i \in {"", "s1", "s2"}, r \in BOOLEAN }
    \cup { [kind |-> "error_during_execution", sid |-> i, has_result |-> TRUE] :
             i \in {"", "s2"} }
    \cup { [kind |-> k, sid |-> "", has_result |-> FALSE] :
             k \in {"timeout", "nonzero", "empty", "badjson", "notdict"} }

\* the messages a caller sends
Contents == {"hello"}

\* line 44: ClaudeCodeOptions(), as SessionData keeps it
StatefulOptions == [model |-> "", cwd |-> NoneValue]

\* line 111: str(uuid.uuid4())
Uuid4 == "u1"

\* a session stored by an earlier run of the program, with history
StoredSession ==
    SessionDataOf("s1", DateTime(0, 5), DateTime(0, 5),
                  <<UserMsg("earlier", 0), AssistantMsg("answer", 0)>>,
                  <<StatefulOptions>>, <<>>)

\* lines 42-50, for a session_id argument that is None or "s1", over an empty
\* storage directory or one that holds s1
StatefulInit ==
    /\ \E id \in {"", "s1"} :
          /\ original_session_id = id
          /\ current_session_id = id
    /\ session_data = <<>>
    /\ session_active = FALSE
    /\ has_sent_messages = FALSE
    /\ clock = 0
    /\ xop = "none"
    /\ xpc = "idle"
    /\ content = ""
    /\ xcmd = <<>>
    /\ attempt = 0
    /\ invocations = 0
    /\ last_run = NoRun
    /\ xoutcome = "none"
    /\ response = <<>>
    /\ before = Fields(original_session_id, current_session_id, <<>>, FALSE)
    /\ had_history = FALSE
    /\ last_response_sid = ""

StatefulSpecInit ==
    /\ ReaderIdle /\ ControlInit /\ NoCli /\ TransportIdle /\ LaunchIdle /\ ClientIdle
    /\ storage \in { [i \in SessionIds |-> <<>>],
                     Save([i \in SessionIds |-> <<>>], StoredSession) }
    /\ pop = "none" /\ parg = "" /\ pres = "none" /\ ploaded = <<>> /\ plisted = <<>>
    /\ last_saved = [i \in SessionIds |-> <<>>]
    /\ existed = FALSE /\ deleted = {} /\ was_deleted = FALSE
    /\ StatefulInit

\* what a call of the transport leaves alone outside its own fields
persistenceCalls == <<pop, parg, pres, ploaded, plisted, last_saved, existed, deleted,
                      was_deleted>>

\* the fields of the transport now
Snapshot ==
    Fields(original_session_id, current_session_id, session_data, has_sent_messages)

\* whether the session has conversation history
HasHistory(data) == data # <<>> /\ Len(data[1].conversation_history) > 0

\* lines 87-127
XStartSession(resume) ==
    /\ xpc = "idle"
    /\ clock < MaxClock
    /\ xop' = "start_session"
    /\ before' = Snapshot
    /\ had_history' = HasHistory(session_data)
    /\ IF session_active
       THEN /\ xoutcome' = "returned"
            /\ UNCHANGED <<original_session_id, current_session_id, session_data,
                           session_active, clock, storage>>
       ELSE LET loaded == IF resume /\ original_session_id # ""
                          THEN Load(storage, original_session_id)
                          ELSE session_data
                id == IF original_session_id # "" THEN original_session_id ELSE Uuid4
                created == SessionDataOf(id, DateTime(clock + 1, 0),
                                         DateTime(clock + 1, 0), <<>>,
                                         <<StatefulOptions>>, <<>>)
            IN IF loaded # <<>>
               THEN /\ session_data' = loaded
                    /\ session_active' = TRUE
                    /\ xoutcome' = "returned"
                    /\ UNCHANGED <<original_session_id, current_session_id, clock,
                                   storage>>
               ELSE /\ session_data' = <<created>>
                    /\ clock' = clock + 1
                    /\ storage' = Save(storage, created)
                    /\ xoutcome' = SaveOutcome(created)
                    /\ IF SaveOutcome(created) = "returned"
                       THEN /\ original_session_id' = id
                            /\ current_session_id' =
                                  IF original_session_id = "" THEN id
                                  ELSE current_session_id
                            /\ session_active' = TRUE
                       ELSE UNCHANGED <<original_session_id, current_session_id,
                                        session_active>>
    /\ UNCHANGED <<has_sent_messages, xpc, content, xcmd, attempt, invocations,
                   last_run, response, last_response_sid>>
    /\ UNCHANGED persistenceCalls
    /\ UNCHANGED notStateful

\* lines 129-135
XEndSession(save) ==
    /\ xpc = "idle"
    /\ xop' = "end_session"
    /\ before' = Snapshot
    /\ had_history' = HasHistory(session_data)
    /\ IF save /\ session_data # <<>>
       THEN /\ storage' = Save(storage, session_data[1])
            /\ xoutcome' = SaveOutcome(session_data[1])
            /\ session_active' = IF SaveOutcome(session_data[1]) = "returned"
                                 THEN FALSE ELSE session_active
       ELSE /\ session_active' = FALSE
            /\ xoutcome' = "returned"
            /\ UNCHANGED storage
    /\ UNCHANGED <<original_session_id, current_session_id, session_data,
                   has_sent_messages, clock, xpc, content, xcmd, attempt, invocations,
                   last_run, response, last_response_sid>>
    /\ UNCHANGED persistenceCalls
    /\ UNCHANGED notStateful

\* lines 219-262 with the options of ClaudeCodeOptions()
BuildMessageCommand(text, stream, orig, sent) ==
    <<"claude", "-p", text>>
    \o (IF orig # "" /\ sent THEN <<"--resume", orig>> ELSE <<>>)
    \o (IF stream THEN <<"--output-format", "stream-json", "--verbose">>
        ELSE <<"--output-format", "json">>)

\* Exchange with line 472 lost: only _current_session_id follows the response
ExchangeCurrentOnly(f, text, run, now) ==
    LET asked == Append(f.session_data[1].conversation_history, UserMsg(text, now))
        answered == IF run.has_result THEN Append(asked, AssistantMsg("reply", now))
                    ELSE asked
    IN Fields(f.original_session_id,
              IF run.sid # "" THEN run.sid ELSE f.current_session_id,
              IF f.session_data = <<>> THEN <<>>
              ELSE <<[f.session_data[1] EXCEPT !.last_activity = DateTime(now, 0),
                                               !.conversation_history = answered]>>,
              TRUE)

\* lines 465-499 (and 178-211): the fields after a response has been taken in
Exchange(f, text, run, now) ==
    LET asked == Append(f.session_data[1].conversation_history, UserMsg(text, now))
        answered == IF run.has_result THEN Append(asked, AssistantMsg("reply", now))
                    ELSE asked
    IN Fields(IF run.sid # "" THEN run.sid ELSE f.original_session_id,
              IF run.sid # "" THEN run.sid ELSE f.current_session_id,
              IF f.session_data = <<>> THEN <<>>
              ELSE <<[f.session_data[1] EXCEPT !.last_activity = DateTime(now, 0),
                                               !.conversation_history = answered]>>,
              TRUE)

\* MoreAttempts with no end
MoreAttemptsAlways(n) == TRUE

\* lines 375, 423, 444, 453: attempt < max_retries, which is also whether
\* range(max_retries + 1) has another value after attempt
MoreAttempts(n) == n < max_retries

\* IsExecutionError with the test lost
IsExecutionErrorNever(run) == FALSE

\* line 421: response_data.get("subtype") == "error_during_execution"
IsExecutionError(run) == run.kind = "error_during_execution"

\* the error classes that are CLIConnectionError or one of its subclasses;
\* ProcessError and CLIJSONDecodeError are kinds of their own
IsCLIConnectionError(exc) == exc \in {"CLIConnectionError", "CLINotFoundError"}

\* Retries with every exception retried
RetriesAny(exc) == TRUE

\* lines 442-463: the except clauses that go on to another attempt
Retries(exc) == IsCLIConnectionError(exc) \/ exc = "TimeoutExpired"

\* lines 376-440: how the body of the try ends on attempt n: "break",
\* "continue" or the exception it raises
TryBody(run, n) ==
    CASE run.kind = "timeout" -> "TimeoutExpired"
      [] run.kind = "nonzero" -> "ProcessError"
      [] run.kind = "empty" -> "CLIJSONDecodeError"
      [] run.kind = "badjson" -> "JSONDecodeError"
      [] run.kind = "notdict" -> "AttributeError"
      [] OTHER -> IF IsExecutionError(run)
                  THEN (IF MoreAttempts(n) THEN "continue" ELSE "CLIConnectionError")
                  ELSE "break"

\* lines 442-463: what the except clauses make of an exception on attempt n
Handler(exc, n) ==
    IF Retries(exc)
    THEN (IF MoreAttempts(n) THEN "continue"
          ELSE IF exc = "TimeoutExpired" THEN "CLIConnectionError" ELSE exc)
    ELSE exc

\* lines 375-463: one iteration of the loop
Iteration(run, n) ==
    IF TryBody(run, n) \in {"break", "continue"} THEN TryBody(run, n)
    ELSE Handler(TryBody(run, n), n)

\* CommitsOn with the code after the loop run whatever happened
CommitsAlways(how) == TRUE

\* lines 440, 465: the code after the loop runs only after the break
CommitsOn(how) == how = "break"

\* lines 351-373: get_simple_response up to the loop
GetSimpleResponse(text) ==
    /\ xpc = "idle"
    /\ clock < MaxClock
    /\ xop' = "get_simple_response"
    /\ content' = text
    /\ before' = Snapshot
    /\ had_history' = HasHistory(session_data)
    /\ attempt' = 0
    /\ invocations' = 0
    /\ last_run' = NoRun
    /\ response' = <<>>
    /\ IF ~session_active
       THEN /\ xoutcome' = "CLIConnectionError"
            /\ xcmd' = <<>>
            /\ UNCHANGED xpc
       ELSE /\ xoutcome' = "none"
            /\ xcmd' = BuildMessageCommand(text, FALSE, original_session_id,
                                           has_sent_messages)
            /\ xpc' = "running"
    /\ UNCHANGED <<original_session_id, current_session_id, session_data,
                   session_active, has_sent_messages, clock, storage,
                   last_response_sid>>
    /\ UNCHANGED persistenceCalls
    /\ UNCHANGED notStateful

\* lines 375-499: subprocess.run ends as run says, and what follows it
RunCli(run) ==
    /\ xpc = "running"
    /\ invocations' = invocations + 1
    /\ last_run' = run
    /\ LET how == Iteration(run, attempt)
           after == Exchange(Snapshot, content, run, clock + 1)
       IN /\ IF CommitsOn(how)
             THEN /\ original_session_id' = after.original_session_id
                  /\ current_session_id' = after.current_session_id
                  /\ session_data' = after.session_data
                  /\ has_sent_messages' = after.has_sent_messages
                  /\ clock' = clock + 1
                  /\ last_response_sid' = IF run.sid # "" THEN run.sid
                                          ELSE last_response_sid
             ELSE UNCHANGED <<original_session_id, current_session_id, session_data,
                              has_sent_messages, clock, last_response_sid>>
          /\ IF how = "continue"
             THEN /\ attempt' = attempt + 1
                  /\ UNCHANGED <<xpc, xoutcome, response>>
             ELSE /\ xpc' = "idle"
                  /\ xoutcome' = IF how = "break" THEN "returned" ELSE how
                  /\ response' = IF how = "break" THEN <<run>> ELSE <<>>
                  /\ UNCHANGED attempt
    /\ UNCHANGED <<session_active, xop, content, xcmd, before, had_history, storage>>
    /\ UNCHANGED persistenceCalls
    /\ UNCHANGED notStateful

\* lines 151-155 and 159-217, 264-328: send_user_message(content, stream=True)
\* and the iteration of what it returns to its end; the CLI writes one JSON
\* value or none
StreamMessage(text, run) ==
    /\ xpc = "idle"
    /\ clock < MaxClock
    /\ run.kind # "timeout"
    /\ xop' = "stream"
    /\ content' = text
    /\ before' = Snapshot
    /\ had_history' = HasHistory(session_data)
    /\ attempt' = 0
    /\ IF ~session_active
       THEN /\ xoutcome' = "CLIConnectionError"
            /\ xcmd' = <<>>
            /\ invocations' = 0
            /\ last_run' = NoRun
            /\ response' = <<>>
            /\ UNCHANGED <<original_session_id, current_session_id, session_data,
                           has_sent_messages, clock, last_response_sid>>
       ELSE /\ xcmd' = BuildMessageCommand(text, TRUE, original_session_id,
                                           has_sent_messages)
            /\ invocations' = 1
            /\ last_run' = run
            /\ IF run.kind \in {"success", "error_during_execution"}
               THEN LET after == Exchange(Snapshot, text, run, clock + 1)
                    IN /\ original_session_id' = after.original_session_id
                       /\ current_session_id' = after.current_session_id
                       /\ session_data' = after.session_data
                       /\ has_sent_messages' = after.has_sent_messages
                       /\ clock' = clock + 1
                       /\ last_response_sid' = IF run.sid # "" THEN run.sid
                                               ELSE last_response_sid
                       /\ response' = <<run>>
                       /\ xoutcome' = "returned"
               ELSE /\ xoutcome' = IF run.kind \in {"nonzero", "notdict"}
                                   THEN "CLIConnectionError" ELSE "returned"
                    /\ response' = <<>>
                    /\ UNCHANGED <<original_session_id, current_session_id,
                                   session_data, has_sent_messages, clock,
                                   last_response_sid>>
    /\ UNCHANGED <<session_active, xpc, storage>>
    /\ UNCHANGED persistenceCalls
    /\ UNCHANGED notStateful

\* stateful_client.py lines 452-460, clear_conversation_history on the
\* transport of an active session: the history of get_session_data() is
\* emptied in place and the transport's save_session() (lines 346-349) stores it
ClearConversationHistory ==
    /\ xpc = "idle"
    /\ session_active
    /\ xop' = "clear"
    /\ before' = Snapshot
    /\ had_history' = HasHistory(session_data)
    /\ IF session_data # <<>>
       THEN LET cleared == [session_data[1] EXCEPT !.conversation_history = <<>>]
            IN /\ session_data' = <<cleared>>
               /\ storage' = Save(storage, cleared)
               /\ xoutcome' = SaveOutcome(cleared)
       ELSE /\ xoutcome' = "returned"
            /\ UNCHANGED <<session_data, storage>>
    /\ UNCHANGED <<original_session_id, current_session_id, session_active,
                   has_sent_messages, clock, xpc, content, xcmd, attempt, invocations,
                   last_run, response, last_response_sid>>
    /\ UNCHANGED persistenceCalls
    /\ UNCHANGED notStateful

StatefulNext ==
    \/ ClearConversationHistory
    \/ \E resume \in BOOLEAN : XStartSession(resume)
    \/ \E save \in BOOLEAN : XEndSession(save)
    \/ \E text \in Contents : GetSimpleResponse(text)
    \/ \E run \in Runs : RunCli(run)
    \/ \E text \in Contents, run \in Runs : StreamMessage(text, run)

StatefulSpec == StatefulSpecInit /\ [][StatefulNext]_vars

-----------------------------------------------------------------------------
(* Claims about StatefulCLITransport (checked under StatefulSpec) *)

\* the call made last was a message to the CLI
Messaging == xop \in {"get_simple_response", "stream"}

\* the id that follows --resume in a command, <<>> when the flag is absent
ResumeOf(command) ==
    IF \E i \in 1..Len(command) : command[i] = "--resume"
    THEN <<command[(CHOOSE i \in 1..Len(command) : command[i] = "--resume") + 1]>>
    ELSE <<>>

\* the last call returned a response whose session_id differs from the id
\* tracked when the call was made
SessionIdChanged ==
    /\ Messaging /\ xpc = "idle" /\ xoutcome = "returned"
    /\ response # <<>>
    /\ response[1].sid # ""
    /\ response[1].sid # before.current_session_id

\* C21: after a response with a different session_id the tracked current
\* session id and the session data's session_id both equal the new id, the
\* earlier history is retained in order with the new exchange appended, and
\* start_time is unchanged
ClaimC21 ==
    SessionIdChanged =>
        /\ current_session_id = response[1].sid
        /\ session_data[1].session_id = response[1].sid
        /\ IsPrefix(before.session_data[1].conversation_history,
                    session_data[1].conversation_history)
        /\ Len(session_data[1].conversation_history) >
              Len(before.session_data[1].conversation_history)
        /\ session_data[1].start_time = before.session_data[1].start_time

\* C24: every run of the CLI for a message in a session that had conversation
\* history when the message was sent carries --resume with the session id
\* tracked at that moment
ClaimC24 ==
    (Messaging /\ invocations > 0 /\ had_history) =>
        ResumeOf(xcmd) = <<before.current_session_id>>

\* C25: a get_simple_response call runs the CLI at most max_retries + 1 = 5
\* times, and after the fifth run it has returned or raised
ClaimC25 ==
    xop = "get_simple_response" =>
        /\ invocations <= max_retries + 1
        /\ invocations = max_retries + 1 => (xpc = "idle" /\ xoutcome # "none")

\* five runs that timed out, and the call raised
WitnessC25 ==
    /\ xop = "get_simple_response" /\ xpc = "idle"
    /\ invocations = max_retries + 1
    /\ last_run.kind = "timeout"
    /\ xoutcome = "CLIConnectionError"

\* C26: get_simple_response goes on to another run of the CLI only after a
\* result with subtype error_during_execution or a timeout; a non-zero exit
\* code, empty output and output that is not JSON raise at once
ClaimC26 ==
    (xop = "get_simple_response" /\ invocations > 0) =>
        /\ xpc = "running" => last_run.kind \in {"error_during_execution", "timeout"}
        /\ last_run.kind = "nonzero" => (xpc = "idle" /\ xoutcome = "ProcessError")
        /\ last_run.kind = "empty" => (xpc = "idle" /\ xoutcome = "CLIJSONDecodeError")
        /\ last_run.kind = "badjson" => (xpc = "idle" /\ xoutcome = "JSONDecodeError")

\* a non-zero exit code on the third run, after two retries: the call raised
\* ProcessError with no fourth run
WitnessC26 ==
    /\ xop = "get_simple_response" /\ xpc = "idle"
    /\ invocations = 3 /\ attempt = 2
    /\ last_run.kind = "nonzero"
    /\ xoutcome = "ProcessError"

\* C27: get_simple_response never returns a response with subtype
\* error_during_execution: after such a run the call goes on or, on the last
\* attempt, raises CLIConnectionError, and neither the history nor the
\* tracked session ids have changed
ClaimC27 ==
    xop = "get_simple_response" =>
        /\ xoutcome = "returned" => response[1].kind = "success"
        /\ (invocations > 0 /\ last_run.kind = "error_during_execution") =>
              /\ response = <<>>
              /\ Snapshot = before
              /\ xpc = "idle" =>
                    (xoutcome = "CLIConnectionError" /\ invocations = max_retries + 1)

\* a fifth error_during_execution that carried a new session id, in a
\* session with history: CLIConnectionError
WitnessC27 ==
    /\ xop = "get_simple_response" /\ xpc = "idle"
    /\ last_run.kind = "error_during_execution" /\ last_run.sid = "s2"
    /\ current_session_id # "s2"
    /\ had_history
    /\ xoutcome = "CLIConnectionError"

\* C28: when get_simple_response has raised, _has_sent_messages, both session
\* ids and the session data (history included) are as they were when it was
\* called
ClaimC28 ==
    (xop = "get_simple_response" /\ xpc = "idle" /\ xoutcome \notin {"none", "returned"})
        => Snapshot = before

\* a call that raised after a retry, in a session that had sent messages
WitnessC28 ==
    /\ xop = "get_simple_response" /\ xpc = "idle"
    /\ xoutcome = "AttributeError"
    /\ invocations = 2
    /\ before.has_sent_messages /\ had_history
    /\ Snapshot = before

\* both session ids are the same at every moment
IdsAgree == original_session_id = current_session_id

\* C34: when the CLI exits with a non-zero code, the caller of
\* StatefulCLITransport gets a ProcessError (not a CLIConnectionError), both
\* from get_simple_response and from the streaming iterator
ClaimC34 ==
    (Messaging /\ xpc = "idle" /\ invocations > 0 /\ last_run.kind = "nonzero")
        => xoutcome = "ProcessError"

HistoryOf(data) == IF data = <<>> THEN <<>> ELSE data[1].conversation_history

\* the last call was a get_simple_response that returned a response with a result
ReturnedResult ==
    /\ xop = "get_simple_response" /\ xpc = "idle" /\ xoutcome = "returned"
    /\ response # <<>> /\ response[1].has_result

\* C37: a get_simple_response that returned a response with a result has
\* appended exactly two entries to the conversation history, the user
\* message and then the assistant reply, and has set _has_sent_messages; and
\* the history never gets shorter except by clear_conversation_history
ClaimC37 ==
    /\ [](ReturnedResult =>
             /\ HistoryOf(session_data) =
                   HistoryOf(before.session_data)
                   \o <<UserMsg(content, clock), AssistantMsg("reply", clock)>>
             /\ has_sent_messages)
    /\ [][Len(HistoryOf(session_data')) < Len(HistoryOf(session_data))
            => xop' = "clear"]_vars

-----------------------------------------------------------------------------
(* StatefulCLITransport._execute_streaming_command: the loop over stdout      *)
(* (subprocess_stateful_cli.py lines 280-319), on the output of one CLI run   *)

\* line 288: str.split("\n")
RECURSIVE SplitLF(_)
SplitLF(s) ==
    IF LF \notin Range(s) THEN <<s>>
    ELSE LET i == CHOOSE k \in 1..Len(s) : s[k] = LF /\ \A m \in 1..(k - 1) : s[m] # LF
         IN <<SubSeq(s, 1, i - 1)>> \o SplitLF(SubSeq(s, i + 1, Len(s)))

\* lines 289-303: the inner loop over the pieces of one chunk; buf is
\* json_buffer and out the values yielded so far.  The buffer is emptied only
\* by a parse that succeeded
RECURSIVE Accumulate(_, _, _)
Accumulate(pieces, buf, out) ==
    IF pieces = <<>> THEN [buf |-> buf, out |-> out]
    ELSE LET json_line == Strip(Head(pieces))
             joined == buf \o json_line
         IN IF json_line = <<>> THEN Accumulate(Tail(pieces), buf, out)
            ELSE IF IsValidJson(joined)
                 THEN Accumulate(Tail(pieces), <<>>, Append(out, JsonLoads(joined).val))
                 ELSE Accumulate(Tail(pieces), joined, out)

ExecInit == ReaderInit /\ ControlInit /\ NoCli /\ TransportIdle /\ LaunchIdle /\ ClientIdle /\ SessionsIdle

\* lines 282-303: process.stdout delivers the next n characters as one chunk
ExecReadChunk(n) ==
    /\ pc = "loop"
    /\ pos + n <= Len(stdout)
    /\ LET chunk == SubSeq(stdout, pos + 1, pos + n)
           stripped == Strip(chunk)
           after == IF stripped = <<>> THEN [buf |-> json_buffer, out |-> messages]
                    ELSE Accumulate(SplitLF(stripped), json_buffer, messages)
       IN /\ pos' = pos + n
          /\ boundary_in_line' =
                (boundary_in_line \/ (/\ pos + n < Len(stdout)
                                      /\ stdout[pos + n] # LF
                                      /\ stdout[pos + n + 1] # LF))
          /\ chunk_spans_lines' = (chunk_spans_lines \/ LF \in Range(stripped))
          /\ line_str' = stripped
          /\ json_buffer' = after.buf
          /\ messages' = after.out
    /\ UNCHANGED <<emitted, stdout, pc, err_kind, err_text, exit_code, stderr_text>>
    /\ UNCHANGED notReader

\* line 282: stdout is exhausted and the loop ends; what json_buffer holds is
\* not looked at again
ExecEndOfStream ==
    /\ pc = "loop"
    /\ pos = Len(stdout)
    /\ pc' = "wait"
    /\ UNCHANGED <<emitted, stdout, pos, boundary_in_line, chunk_spans_lines, line_str,
                   json_buffer, messages, err_kind, err_text, exit_code, stderr_text>>
    /\ UNCHANGED notReader

\* lines 305-328: the exit code; the ProcessError of line 315 is raised inside
\* the try block and leaves as the CLIConnectionError of line 328
ExecWait(returncode) ==
    /\ pc = "wait"
    /\ exit_code' = <<returncode>>
    /\ pc' = IF returncode # 0 THEN "raised" ELSE "done"
    /\ err_kind' = IF returncode # 0 THEN "CLIConnectionError" ELSE err_kind
    /\ UNCHANGED <<emitted, stdout, pos, boundary_in_line, chunk_spans_lines, line_str,
                   json_buffer, messages, err_text, stderr_text>>
    /\ UNCHANGED notReader

ExecNext ==
    \/ \E n \in 1..Len(stdout) : ExecReadChunk(n)
    \/ ExecEndOfStream
    \/ \E returncode \in {0, 1} : ExecWait(returncode)

ExecSpec == ExecInit /\ [][ExecNext]_vars

\* line i of the output is valid JSON and some line before it is not
ValidAfterBad(i) ==
    /\ IsValidJson(emitted[i])
    /\ \E j \in 1..(i - 1) : ~IsValidJson(emitted[j])

\* C35: in _execute_streaming_command a line that does not parse as JSON
\* does not cost later envelopes: once the loop has read the whole output,
\* every valid line written after a malformed line has been yielded
ClaimC35 ==
    pc # "loop" =>
        \A i \in 1..Len(emitted) :
            ValidAfterBad(i) => JsonLoads(emitted[i]).val \in Range(messages)

-----------------------------------------------------------------------------
(* stdout and stderr of a CLI process are two pipes of bounded capacity: a    *)
(* write to a full pipe blocks the CLI until the SDK has read from that pipe. *)
(* The two read paths: SubprocessCLITransport.receive_messages                *)
(* (subprocess_cli.py lines 215-290) and                                      *)
(* StatefulCLITransport._execute_streaming_command                            *)
(* (subprocess_stateful_cli.py lines 269-319).                                *)

\* how many chunks a pipe holds before a write to it blocks
PipeCapacity == 2
\* how many writes a CLI makes at most before it exits
MaxWrites == 4

ReadPaths == {"receive_messages", "execute_streaming"}

\* a CLI that is about to make the writes of a script, read on one of the paths
PipesInit ==
    /\ read_path \in ReadPaths
    /\ cli_script \in SeqsUpTo({"out", "err"}, MaxWrites)
    /\ out_pipe = 0
    /\ err_pipe = 0
    /\ cli_exit = <<>>
    /\ reader_at = "stdout"
    /\ stderr_task = IF read_path = "receive_messages" THEN "running" ELSE "none"

DrainInit ==
    /\ ReaderIdle /\ ControlInit /\ QueriesIdle /\ TransportIdle /\ LaunchIdle
    /\ ClientIdle /\ SessionsIdle
    /\ PipesInit

\* the CLI makes its next write, when the pipe it writes to has room
CliWrite ==
    /\ cli_exit = <<>>
    /\ cli_script # <<>>
    /\ IF Head(cli_script) = "out"
       THEN /\ out_pipe < PipeCapacity
            /\ out_pipe' = out_pipe + 1
            /\ UNCHANGED err_pipe
       ELSE /\ err_pipe < PipeCapacity
            /\ err_pipe' = err_pipe + 1
            /\ UNCHANGED out_pipe
    /\ cli_script' = Tail(cli_script)
    /\ UNCHANGED <<read_path, cli_exit, reader_at, stderr_task>>
    /\ UNCHANGED notPipes

\* the CLI has made all its writes and exits, which closes its end of both pipes
CliExit(returncode) ==
    /\ cli_exit = <<>>
    /\ cli_script = <<>>
    /\ cli_exit' = <<returncode>>
    /\ UNCHANGED <<read_path, cli_script, out_pipe, err_pipe, reader_at, stderr_task>>
    /\ UNCHANGED notPipes

\* subprocess_cli.py line 228, subprocess_stateful_cli.py line 282: the loop
\* over stdout takes the next chunk
ReadStdout ==
    /\ reader_at = "stdout"
    /\ out_pipe > 0
    /\ out_pipe' = out_pipe - 1
    /\ UNCHANGED <<read_path, cli_script, err_pipe, cli_exit, reader_at, stderr_task>>
    /\ UNCHANGED notPipes

\* the loop over stdout ends at end of file.  In receive_messages the task
\* group (line 224) is then left, which waits for read_stderr; in
\* _execute_streaming_command line 306 is next
StdoutEof ==
    /\ reader_at = "stdout"
    /\ out_pipe = 0
    /\ cli_exit # <<>>
    /\ reader_at' = IF read_path = "receive_messages" THEN "join" ELSE "wait"
    /\ UNCHANGED <<read_path, cli_script, out_pipe, err_pipe, cli_exit, stderr_task>>
    /\ UNCHANGED notPipes

\* subprocess_cli.py lines 215-225: read_stderr, started in the task group
\* before the loop over stdout, takes the next chunk of stderr
DrainStderr ==
    /\ stderr_task = "running"
    /\ err_pipe > 0
    /\ err_pipe' = err_pipe - 1
    /\ UNCHANGED <<read_path, cli_script, out_pipe, cli_exit, reader_at, stderr_task>>
    /\ UNCHANGED notPipes

\* read_stderr ends at end of file of stderr
StderrEof ==
    /\ stderr_task = "running"
    /\ err_pipe = 0
    /\ cli_exit # <<>>
    /\ stderr_task' = "ended"
    /\ UNCHANGED <<read_path, cli_script, out_pipe, err_pipe, cli_exit, reader_at>>
    /\ UNCHANGED notPipes

\* subprocess_cli.py line 224: the task group is left once read_stderr has ended
JoinTasks ==
    /\ reader_at = "join"
    /\ stderr_task = "ended"
    /\ reader_at' = "wait"
    /\ UNCHANGED <<read_path, cli_script, out_pipe, err_pipe, cli_exit, stderr_task>>
    /\ UNCHANGED notPipes

\* subprocess_cli.py lines 282-290, subprocess_stateful_cli.py lines 306-311:
\* wait() returns once the CLI has exited.  _execute_streaming_command goes on
\* to read stderr when the exit code is not 0
WaitExit ==
    /\ reader_at = "wait"
    /\ cli_exit # <<>>
    /\ reader_at' = IF read_path = "execute_streaming" /\ cli_exit[1] # 0
                    THEN "stderr" ELSE "done"
    /\ UNCHANGED <<read_path, cli_script, out_pipe, err_pipe, cli_exit, stderr_task>>
    /\ UNCHANGED notPipes

\* subprocess_stateful_cli.py lines 312-319: one receive() on stderr (a chunk,
\* or EndOfStream when there is none), and the function raises
ReceiveStderr ==
    /\ reader_at = "stderr"
    /\ err_pipe' = IF err_pipe > 0 THEN err_pipe - 1 ELSE err_pipe
    /\ reader_at' = "done"
    /\ UNCHANGED <<read_path, cli_script, out_pipe, cli_exit, stderr_task>>
    /\ UNCHANGED notPipes

DrainNext ==
    \/ CliWrite
    \/ \E returncode \in {0, 1} : CliExit(returncode)
    \/ ReadStdout
    \/ StdoutEof
    \/ DrainStderr
    \/ StderrEof
    \/ JoinTasks
    \/ WaitExit
    \/ ReceiveStderr

DrainSpec == DrainInit /\ [][DrainNext]_vars

\* the CLI runs whenever it is not blocked on a pipe, and the event loop runs
\* every task that can take a step
DrainFairSpec ==
    /\ DrainSpec
    /\ WF_vars(CliWrite)
    /\ WF_vars(\E returncode \in {0, 1} : CliExit(returncode))
    /\ WF_vars(ReadStdout) /\ WF_vars(StdoutEof)
    /\ WF_vars(DrainStderr) /\ WF_vars(StderrEof)
    /\ WF_vars(JoinTasks) /\ WF_vars(WaitExit) /\ WF_vars(ReceiveStderr)

\* C33: on both read paths stderr is drained while stdout is read, so the CLI,
\* whatever it writes to stderr before it closes stdout, runs to its exit and
\* the reading code comes to its end
ClaimC33 == <>(cli_exit # <<>> /\ reader_at = "done")

-----------------------------------------------------------------------------
(* InternalClient.process_query (client.py lines 18-37), an async generator:  *)
(* calling it runs nothing, its body runs when the host asks for the first    *)
(* message                                                                    *)

\* how many times the host calls process_query
MaxQueries == 3

\* client.py lines 26-28: the keyword arguments of the constructor call
Keywords == {"prompt", "options", "cli_path", "close_stdin_after_prompt"}

\* subprocess_cli.py lines 27-32: the parameters of
\* SubprocessCLITransport.__init__ (it takes no **kwargs)
Parameters == {"prompt", "options", "cli_path"}

\* whether the call binds: every keyword passed names a parameter
Binds == Keywords \subseteq Parameters

\* a prompt is a string or an async iterable of messages
Prompts == {"text", "stream"}

QueryInit ==
    /\ ReaderIdle /\ ControlInit /\ PipesIdle /\ TransportIdle /\ LaunchIdle
    /\ ClientIdle /\ SessionsIdle
    /\ queries = <<>>

\* line 18: the host calls process_query and holds the generator it returns
ProcessQuery(kind) ==
    /\ Len(queries) < MaxQueries
    /\ queries' = Append(queries, [prompt |-> kind, at |-> "created", entered |-> FALSE,
                                   raised |-> "none", spawned |-> 0,
                                   disconnects |-> 0])
    /\ UNCHANGED notQueries

\* lines 26-28: the host asks generator q for its first message and the body
\* starts with the constructor call, outside the try statement of line 30.
\* A call that does not bind raises TypeError there; lines 30-37 are reached
\* only from a call that returned
FirstNext(q) ==
    /\ q <= Len(queries)
    /\ queries[q].at = "created"
    /\ queries' = [queries EXCEPT ![q] =
                      IF Binds
                      THEN [@ EXCEPT !.at = "constructed", !.entered = TRUE]
                      ELSE [@ EXCEPT !.at = "finished", !.entered = TRUE,
                                     !.raised = "TypeError"]]
    /\ UNCHANGED notQueries

\* the host closes generator q before it asked for a message: none of the
\* body runs
Aclose(q) ==
    /\ q <= Len(queries)
    /\ queries[q].at = "created"
    /\ queries' = [queries EXCEPT ![q] = [@ EXCEPT !.at = "finished"]]
    /\ UNCHANGED notQueries

QueryNext ==
    \/ \E kind \in Prompts : ProcessQuery(kind)
    \/ \E q \in 1..MaxQueries : FirstNext(q)
    \/ \E q \in 1..MaxQueries : Aclose(q)

QuerySpec == QueryInit /\ [][QueryNext]_vars

\* C38: whichever way the body of process_query is left, the transport has
\* been disconnected, and once it has finished no subprocess it started is
\* left running
ClaimC38 ==
    \A q \in 1..Len(queries) :
        (queries[q].at = "finished" /\ queries[q].entered) =>
            /\ queries[q].disconnects >= 1
            /\ queries[q].spawned <= queries[q].disconnects

====
